---- MODULE Spec2Model ----
(***************************************************************************)
(* TOC-to-body matching engine of the PDF converter (src/src/              *)
(* pdf_converter.py): the text normalizer, the similarity ratio and the    *)
(* matching loop of PdfConverter._match_toc_to_body.                       *)
(*                                                                         *)
(* A text is a sequence of one-character strings.  A similarity (a Python  *)
(* float in [0,1]) is the exact fraction <<numerator, denominator>>.       *)
(***************************************************************************)
EXTENDS Integers, Sequences, FiniteSets, TLC

VARIABLES
    toc_entries,      \* argument: the ordered TocEntry list
    pages_data,       \* argument: page number -> list of text blocks
    results,          \* the list of MatchResult built by the call
    matched_blocks,   \* the set of claimed (page, block index) keys
    entry_idx,        \* position of the for loop over toc_entries (1-based)
    pc,               \* "call" | "for" | "scan" | "after" | "done"
    pg,               \* page of the scan loop
    block_idx,        \* block index of the scan loop (0-based, as enumerate)
    mr,               \* the MatchResult of the entry being processed
    best_similarity,  \* best fuzzy ratio seen for the entry
    suggestions,      \* suggestion list of the entry
    hit,              \* history: how and where mr was last set
    hits,             \* history: hit of every stored result
    claimed_at_start, \* history: matched_blocks when the entry's scan began
    call_no,          \* number of the running call of _match_toc_to_body
    first_results,    \* history: what the first call returned
    first_inputs,     \* history: the arguments of the first call
    nx,               \* normalizer run: the input string
    ny,               \* normalizer run: a case/whitespace variant of nx
    n1,               \* normalize(nx)
    n2,               \* normalize(normalize(nx))
    nv,               \* normalize(ny)
    npc,              \* "idle" | "in" | "once" | "twice" | "varied"
    toc_text,         \* parser run: the lines of the TOC pages, in order
    line_idx,         \* parser run: position of the loop over the lines (1-based)
    entries,          \* parser run: the TocEntry list built so far
    ppc,              \* "idle" | "lines" | "done"
    input_file,       \* convert: the input path, its pages and the environment
    output_file,      \* convert: the file at output_path
    report_file,      \* convert: the file at report_path
    cpc,              \* convert: position in PdfConverter.convert
    result,           \* convert: the ConversionResult
    toc_range,        \* convert: (toc_start, toc_end), <<>> for (None, None)
    body_start_page,  \* convert: the local body_start
    html_parts,       \* convert: the HTML parts, in output order
    h_text,           \* heading run: the block_text of a matched fragment
    h_level,          \* heading run: entry.heading_level
    h_html,           \* heading run: the part appended to html_parts
    hpc,              \* "idle" | "block" | "appended"
    l_doc,            \* layout run: the pages, each a list of items top to bottom
    l_page,           \* layout run: position of the loop over the pages (1-based)
    l_parts,          \* layout run: html_parts, each part with its page and row
    lpc,              \* "idle" | "tables" | "images" | "blocks" | "done"
    files,            \* batch run: what convert returns for each document
    file_idx,         \* batch run: position of the loop over files (1-based)
    cancel_requested, \* batch run: the cancel flag
    batch_result,     \* batch run: the BatchResult
    done_events,      \* batch run: the 'done' / finished_all events delivered
    bpc,              \* "idle" | "check" | "convert" | "finish" | "finished"
    started_at_cancel \* history: documents started when the flag was set, -1 before

matcher_vars == <<toc_entries, pages_data, results, matched_blocks, entry_idx,
                  pc, pg, block_idx, mr, best_similarity, suggestions, hit,
                  hits, claimed_at_start, call_no, first_results,
                  first_inputs>>
normalizer_vars == <<nx, ny, n1, n2, nv, npc>>
parser_vars == <<toc_text, line_idx, entries, ppc>>
convert_vars == <<input_file, output_file, report_file, cpc, result, toc_range,
                  body_start_page, html_parts>>
heading_vars == <<h_text, h_level, h_html, hpc>>
layout_vars == <<l_doc, l_page, l_parts, lpc>>
batch_vars == <<files, file_idx, cancel_requested, batch_result, done_events,
                bpc, started_at_cancel>>
vars == <<matcher_vars, normalizer_vars, parser_vars, convert_vars,
          heading_vars, layout_vars, batch_vars>>

\* what the actions of one component leave alone
other_than_matcher == <<normalizer_vars, parser_vars, convert_vars, heading_vars,
    layout_vars, batch_vars>>
other_than_normalizer == <<matcher_vars, parser_vars, convert_vars, heading_vars,
    layout_vars, batch_vars>>
other_than_parser == <<matcher_vars, normalizer_vars, convert_vars, heading_vars,
    layout_vars, batch_vars>>
other_than_convert == <<matcher_vars, normalizer_vars, parser_vars, heading_vars,
    layout_vars, batch_vars>>
other_than_heading == <<matcher_vars, normalizer_vars, parser_vars, convert_vars,
    layout_vars, batch_vars>>
other_than_layout == <<matcher_vars, normalizer_vars, parser_vars, convert_vars,
    heading_vars, batch_vars>>
other_than_batch == <<matcher_vars, normalizer_vars, parser_vars, convert_vars,
    heading_vars, layout_vars>>

Min(a, b) == IF a <= b THEN a ELSE b
Max(a, b) == IF a >= b THEN a ELSE b

-----------------------------------------------------------------------------
(* Bounds of the model *)

MaxLen == 4        \* longest input string of a normalizer run
MaxBlocks == 2     \* text blocks in one document
MaxEntries == 2    \* entries in one TOC
LastPage == 4      \* index of the last page of a document
MaxCalls == 3      \* calls of _match_toc_to_body on one converter
MaxLineLen == 5    \* longest enumerated line of a TOC page
MaxLines == 2      \* printed TOC lines on the TOC pages
MaxTokens == 3     \* pieces of the text of a heading run
MaxItems == 2      \* items on one page of a layout run
MaxLayoutPages == 2 \* pages of a layout run
MaxScanPages == 3  \* pages of a document searched for its TOC
MaxFiles == 3      \* documents of a batch

-----------------------------------------------------------------------------
(* Characters and the regular-expression classes \s, \d, \D *)

IsSpace(c) == c \in {" ", "\t"}
IsDigit(c) == c \in {"0", "1", "2", "3", "4", "5", "6", "7", "8", "9"}

\* str.lower() and str.upper() on the letters A-Z, a-z
ToLower(c) ==
    CASE c = "A" -> "a" [] c = "B" -> "b" [] c = "C" -> "c" [] c = "D" -> "d"
      [] c = "E" -> "e" [] c = "F" -> "f" [] c = "G" -> "g" [] c = "H" -> "h"
      [] c = "I" -> "i" [] c = "J" -> "j" [] c = "K" -> "k" [] c = "L" -> "l"
      [] c = "M" -> "m" [] c = "N" -> "n" [] c = "O" -> "o" [] c = "P" -> "p"
      [] c = "Q" -> "q" [] c = "R" -> "r" [] c = "S" -> "s" [] c = "T" -> "t"
      [] c = "U" -> "u" [] c = "V" -> "v" [] c = "W" -> "w" [] c = "X" -> "x"
      [] c = "Y" -> "y" [] c = "Z" -> "z" [] OTHER -> c

ToUpper(c) ==
    CASE c = "a" -> "A" [] c = "b" -> "B" [] c = "c" -> "C" [] c = "d" -> "D"
      [] c = "e" -> "E" [] c = "f" -> "F" [] c = "g" -> "G" [] c = "h" -> "H"
      [] c = "i" -> "I" [] c = "j" -> "J" [] c = "k" -> "K" [] c = "l" -> "L"
      [] c = "m" -> "M" [] c = "n" -> "N" [] c = "o" -> "O" [] c = "p" -> "P"
      [] c = "q" -> "Q" [] c = "r" -> "R" [] c = "s" -> "S" [] c = "t" -> "T"
      [] c = "u" -> "U" [] c = "v" -> "V" [] c = "w" -> "W" [] c = "x" -> "X"
      [] c = "y" -> "Y" [] c = "z" -> "Z" [] OTHER -> c

str_lower(t) == [i \in 1..Len(t) |-> ToLower(t[i])]
str_upper(t) == [i \in 1..Len(t) |-> ToUpper(t[i])]

\* str.strip(): drop leading and trailing whitespace
str_strip(t) ==
    LET keep == {i \in 1..Len(t) : ~IsSpace(t[i])}
    IN  IF keep = {} THEN <<>>
        ELSE LET lo == CHOOSE i \in keep : \A j \in keep : i <= j
                 hi == CHOOSE i \in keep : \A j \in keep : i >= j
             IN  SubSeq(t, lo, hi)

\* str.startswith
StartsWith(s, p) == Len(p) <= Len(s) /\ SubSeq(s, 1, Len(p)) = p

\* re.sub(r'\s+', ' ', t): every maximal whitespace run becomes one space
RECURSIVE CollapseFrom(_, _)
CollapseFrom(t, i) ==
    IF i > Len(t) THEN <<>>
    ELSE IF IsSpace(t[i])
         THEN (IF i > 1 /\ IsSpace(t[i-1]) THEN <<>> ELSE <<" ">>)
              \o CollapseFrom(t, i + 1)
         ELSE <<t[i]>> \o CollapseFrom(t, i + 1)

collapse_whitespace(t) == CollapseFrom(t, 1)

\* t[from..] matches \s*\d+$ : whitespace, then one or more digits, then the end
MatchesNumberTail(t, from) ==
    \E d \in from..Len(t) :
        /\ \A i \in from..(d - 1) : IsSpace(t[i])
        /\ \A i \in d..Len(t) : IsDigit(t[i])

\* re.sub(r'(?<=\D)\s*\d+$', '', t): the leftmost position that has a
\* non-digit character right before it and a number tail from it on
strip_trailing_number(t) ==
    LET starts == {i \in 2..Len(t) :
                      ~IsDigit(t[i-1]) /\ MatchesNumberTail(t, i)}
    IN  IF starts = {} THEN t
        ELSE SubSeq(t, 1, (CHOOSE i \in starts : \A j \in starts : i <= j) - 1)

normalize_text(text) ==
    str_strip(strip_trailing_number(collapse_whitespace(str_lower(text))))

-----------------------------------------------------------------------------
(* Normalizer runs: normalize a string, normalize the result again, and    *)
(* normalize a variant of the string that differs in letter case or in     *)
(* leading/trailing whitespace only.                                       *)

NormAlphabet == {"a", "A", "1", " "}

RECURSIVE StringsUpTo(_)
StringsUpTo(n) ==
    IF n = 0 THEN {<<>>}
    ELSE LET shorter == StringsUpTo(n - 1)
         IN  shorter \cup {Append(s, c) : s \in shorter, c \in NormAlphabet}

\* strings that differ from t in letter case or outer whitespace only
Variants(t) ==
    {str_lower(t), str_upper(t), <<" ">> \o t, t \o <<" ">>, str_strip(t)}

MatcherIdle ==
    /\ toc_entries = <<>>
    /\ pages_data = <<>>
    /\ results = <<>>
    /\ matched_blocks = {}
    /\ entry_idx = 0
    /\ pc = "idle"
    /\ pg = 0
    /\ block_idx = 0
    /\ mr = <<>>
    /\ best_similarity = <<0, 1>>
    /\ suggestions = <<>>
    /\ hit = <<>>
    /\ hits = <<>>
    /\ claimed_at_start = {}
    /\ call_no = 0
    /\ first_results = <<>>
    /\ first_inputs = <<>>

ParserIdle ==
    /\ toc_text = <<>>
    /\ line_idx = 0
    /\ entries = <<>>
    /\ ppc = "idle"

ConvertIdle ==
    /\ input_file = <<>>
    /\ output_file = <<>>
    /\ report_file = <<>>
    /\ cpc = "idle"
    /\ result = <<>>
    /\ toc_range = <<>>
    /\ body_start_page = 0
    /\ html_parts = <<>>

LayoutIdle ==
    /\ l_doc = <<>>
    /\ l_page = 0
    /\ l_parts = <<>>
    /\ lpc = "idle"

BatchIdle ==
    /\ files = <<>>
    /\ file_idx = 0
    /\ cancel_requested = FALSE
    /\ batch_result = <<>>
    /\ done_events = <<>>
    /\ bpc = "idle"
    /\ started_at_cancel = -1

HeadingIdle ==
    /\ h_text = <<>>
    /\ h_level = 0
    /\ h_html = <<>>
    /\ hpc = "idle"

InitNormalize ==
    /\ MatcherIdle
    /\ ParserIdle
    /\ ConvertIdle
    /\ HeadingIdle
    /\ LayoutIdle
    /\ BatchIdle
    /\ nx \in StringsUpTo(MaxLen)
    /\ ny = <<>>
    /\ n1 = <<>>
    /\ n2 = <<>>
    /\ nv = <<>>
    /\ npc = "in"

Normalize ==
    /\ npc = "in"
    /\ n1' = normalize_text(nx)
    /\ npc' = "once"
    /\ UNCHANGED <<nx, ny, n2, nv, other_than_normalizer>>

Renormalize ==
    /\ npc = "once"
    /\ n2' = normalize_text(n1)
    /\ npc' = "twice"
    /\ UNCHANGED <<nx, ny, n1, nv, other_than_normalizer>>

NormalizeVariant ==
    /\ npc = "once"
    /\ \E y \in Variants(nx) :
          /\ ny' = y
          /\ nv' = normalize_text(y)
    /\ npc' = "varied"
    /\ UNCHANGED <<nx, n1, n2, other_than_normalizer>>

NextNormalize == Normalize \/ Renormalize \/ NormalizeVariant

SpecNormalize == InitNormalize /\ [][NextNormalize]_vars

-----------------------------------------------------------------------------
(* difflib.SequenceMatcher(None, a, b).ratio() for strings below the       *)
(* autojunk length: the Ratcliff/Obershelp matching blocks.                *)

\* length of the common run of a[i..ahi] and b[j..bhi]
RECURSIVE CommonRun(_, _, _, _, _, _)
CommonRun(a, b, i, j, ahi, bhi) ==
    IF i > ahi \/ j > bhi THEN 0
    ELSE IF a[i] # b[j] THEN 0
    ELSE 1 + CommonRun(a, b, i + 1, j + 1, ahi, bhi)

\* the longest block common to a[alo..ahi] and b[blo..bhi]: of the longest
\* ones the earliest in a, of these the earliest in b; <<i, j, size>>
find_longest_match(a, b, alo, ahi, blo, bhi) ==
    LET size(i, j) == CommonRun(a, b, i, j, ahi, bhi)
        pairs == (alo..ahi) \X (blo..bhi)
        best == CHOOSE p \in pairs :
                    \A q \in pairs :
                        \/ size(p[1], p[2]) > size(q[1], q[2])
                        \/ /\ size(p[1], p[2]) = size(q[1], q[2])
                           /\ \/ p[1] < q[1]
                              \/ p[1] = q[1] /\ p[2] <= q[2]
    IN  <<best[1], best[2], size(best[1], best[2])>>

\* total size of the matching blocks of a[alo..ahi] and b[blo..bhi]
RECURSIVE matching_size(_, _, _, _, _, _)
matching_size(a, b, alo, ahi, blo, bhi) ==
    IF alo > ahi \/ blo > bhi THEN 0
    ELSE LET m == find_longest_match(a, b, alo, ahi, blo, bhi)
         IN  IF m[3] = 0 THEN 0
             ELSE m[3]
                  + matching_size(a, b, alo, m[1] - 1, blo, m[2] - 1)
                  + matching_size(a, b, m[1] + m[3], ahi, m[2] + m[3], bhi)

\* 2.0 * matches / length, and 1.0 when both strings are empty
ratio(a, b) ==
    IF Len(a) + Len(b) = 0 THEN <<1, 1>>
    ELSE <<2 * matching_size(a, b, 1, Len(a), 1, Len(b)), Len(a) + Len(b)>>

\* comparison of similarities
GE(x, y) == x[1] * y[2] >= y[1] * x[2]
GT(x, y) == x[1] * y[2] > y[1] * x[2]
EQ(x, y) == x[1] * y[2] = y[1] * x[2]

\* round(similarity, 2) in hundredths; a tie goes to the even neighbour, as
\* Python rounds the exactly representable ties k/8 that short strings give
round2(x) ==
    LET q == (100 * x[1]) \div x[2]
        r == (100 * x[1]) % x[2]
    IN  IF 2 * r < x[2] THEN q
        ELSE IF 2 * r > x[2] THEN q + 1
        ELSE IF q % 2 = 0 THEN q ELSE q + 1

-----------------------------------------------------------------------------
(* Matching configuration and the inputs of a call *)

fuzzy_threshold == <<80, 100>>
suggestion_threshold == <<50, 100>>
page_window == 2
max_suggestions == 3

\* convert: the body starts on the page after the TOC (a TOC on page 0)
body_start == 1

Pages == body_start..LastPage

\* texts of body blocks, as _extract_pages_data leaves them (trimmed, non-empty)
BlockTexts == {<<"a">>, <<"B">>, <<"a", " ", "b">>, <<"a", "b">>}

TocEntry(clean, page, section) ==
    [clean_text |-> clean, heading_level |-> 1, page_number |-> page,
     is_section |-> section, numbering |-> <<>>]

\* entries the TOC parser can produce: section titles declared on page 1 or 2
\* and one figure reference
TocCandidates ==
    {TocEntry(<<"a", " ", "b">>, 1, TRUE), TocEntry(<<"a", " ", "b">>, 2, TRUE),
     TocEntry(<<"b">>, 1, TRUE), TocEntry(<<"b">>, 2, TRUE),
     TocEntry(<<"F", "i", "g", " ", "a">>, 1, FALSE)}

RECURSIVE SeqsUpTo(_, _)
SeqsUpTo(S, n) ==
    IF n = 0 THEN {<<>>}
    ELSE LET shorter == SeqsUpTo(S, n - 1)
         IN  shorter \cup {Append(s, x) : s \in shorter, x \in S}

\* a document: at most MaxBlocks blocks laid out over the body pages in order
Placements ==
    {s \in SeqsUpTo(Pages \X BlockTexts, MaxBlocks) :
        \A i \in 1..(Len(s) - 1) : s[i][1] <= s[i+1][1]}

RECURSIVE BlocksOn(_, _)
BlocksOn(s, p) ==
    IF s = <<>> THEN <<>>
    ELSE (IF Head(s)[1] = p THEN <<[text |-> Head(s)[2]]>> ELSE <<>>)
         \o BlocksOn(Tail(s), p)

Documents == {[p \in Pages |-> BlocksOn(s, p)] : s \in Placements}

TocLists == SeqsUpTo(TocCandidates, MaxEntries) \ {<<>>}

-----------------------------------------------------------------------------
(* PdfConverter._match_toc_to_body *)

NewMatchResult(entry) ==
    [toc_entry |-> entry, matched |-> FALSE, matched_text |-> <<>>,
     page_num |-> 0, similarity |-> <<0, 1>>, suggestions |-> <<>>]

NoHit == [kind |-> "none", page |-> 0, idx |-> 0]

estimated_page(entry) == body_start + entry.page_number - 1

search_start(entry) == Max(body_start, estimated_page(entry) - page_window)

MaxKey(f) == CHOOSE k \in DOMAIN f : \A j \in DOMAIN f : k >= j

search_end_wider(entry) ==
    Min(IF DOMAIN pages_data # {} THEN MaxKey(pages_data) + 1 ELSE body_start,
        estimated_page(entry) + page_window + 2)

search_end(entry) ==
    Min(IF DOMAIN pages_data # {} THEN MaxKey(pages_data) + 1 ELSE body_start,
        estimated_page(entry) + page_window + 1)

entry == toc_entries[entry_idx]
toc_normalized == normalize_text(entry.clean_text)
block == pages_data[pg][block_idx + 1]
block_key == <<pg, block_idx>>
block_normalized == normalize_text(block.text)
similarity == ratio(toc_normalized, block_normalized)

\* the scan loops stand at a block of a page of the window
AtBlock ==
    /\ pc = "scan"
    /\ pg < search_end(entry)
    /\ pg \in DOMAIN pages_data
    /\ block_idx < Len(pages_data[pg])

IsClaimedNever(key) == FALSE

\* block_key in matched_blocks
IsClaimed(key) == key \in matched_blocks

\* first test: the normalized block starts with the normalized entry
ExactPrefix == StartsWith(block_normalized, toc_normalized)

\* second test: the block joined with the next block of the page starts with it
HasNext == block_idx + 1 < Len(pages_data[pg])
next_block == pages_data[pg][block_idx + 2]
combined == block_normalized \o <<" ">> \o normalize_text(next_block.text)
ConcatPrefix == HasNext /\ StartsWith(combined, toc_normalized)

ScanCompleteOnAnyMatch(m) == m.matched

\* if mr.matched and mr.similarity >= 1.0: break
ScanComplete(m) == m.matched /\ GE(m.similarity, <<1, 1>>)

AppendIfMatched(rs, m) == IF m.matched THEN Append(rs, m) ELSE rs

\* results.append(mr)
AppendResult(rs, m) == Append(rs, m)

KeepClaims(old) == old

\* matched_blocks = set()
FreshClaims(old) == {}

\* the call starts: the configuration is read, results and matched_blocks
\* are created empty
Call ==
    /\ pc = "call"
    /\ results' = <<>>
    /\ hits' = <<>>
    /\ matched_blocks' = FreshClaims(matched_blocks)
    /\ entry_idx' = 1
    /\ pc' = "for"
    /\ UNCHANGED <<toc_entries, pages_data, pg, block_idx, mr, best_similarity,
                   suggestions, hit, claimed_at_start, call_no, first_results,
                   first_inputs, other_than_matcher>>

\* a Figure/Table reference: stored unmatched, nothing is searched
SkipEntry ==
    /\ pc = "for"
    /\ entry_idx <= Len(toc_entries)
    /\ ~entry.is_section
    /\ mr' = NewMatchResult(entry)
    /\ hit' = NoHit
    /\ results' = AppendResult(results, mr')
    /\ hits' = Append(hits, hit')
    /\ entry_idx' = entry_idx + 1
    /\ UNCHANGED <<toc_entries, pages_data, matched_blocks, pc, pg, block_idx,
                   best_similarity, suggestions, claimed_at_start, call_no,
                   first_results, first_inputs, other_than_matcher>>

\* a section entry: the window is computed and the scan starts at its first page
BeginScan ==
    /\ pc = "for"
    /\ entry_idx <= Len(toc_entries)
    /\ entry.is_section
    /\ mr' = NewMatchResult(entry)
    /\ hit' = NoHit
    /\ best_similarity' = <<0, 1>>
    /\ suggestions' = <<>>
    /\ claimed_at_start' = matched_blocks
    /\ pg' = search_start(entry)
    /\ block_idx' = 0
    /\ pc' = IF search_start(entry) < search_end(entry) THEN "scan" ELSE "after"
    /\ UNCHANGED <<toc_entries, pages_data, results, matched_blocks, entry_idx,
                   hits, call_no, first_results, first_inputs, other_than_matcher>>

\* a claimed block is passed over
ScanClaimed ==
    /\ AtBlock
    /\ IsClaimed(block_key)
    /\ block_idx' = block_idx + 1
    /\ UNCHANGED <<toc_entries, pages_data, results, matched_blocks, entry_idx,
                   pc, pg, mr, best_similarity, suggestions, hit, hits,
                   claimed_at_start, call_no, first_results, first_inputs, other_than_matcher>>

\* exact prefix: accepted with similarity 1.0, the key is claimed, both loops end
ScanExact ==
    /\ AtBlock
    /\ ~IsClaimed(block_key)
    /\ ExactPrefix
    /\ mr' = [mr EXCEPT !.matched = TRUE, !.matched_text = block.text,
                        !.page_num = pg, !.similarity = <<1, 1>>]
    /\ hit' = [kind |-> "exact", page |-> pg, idx |-> block_idx]
    /\ matched_blocks' = matched_blocks \cup {block_key}
    /\ pc' = "after"
    /\ UNCHANGED <<toc_entries, pages_data, results, entry_idx, pg, block_idx,
                   best_similarity, suggestions, hits, claimed_at_start,
                   call_no, first_results, first_inputs, other_than_matcher>>

\* multi-line title: accepted with similarity 1.0, both keys are claimed
ScanConcat ==
    /\ AtBlock
    /\ ~IsClaimed(block_key)
    /\ ~ExactPrefix
    /\ ConcatPrefix
    /\ mr' = [mr EXCEPT !.matched = TRUE,
                        !.matched_text = block.text \o <<" ">> \o next_block.text,
                        !.page_num = pg, !.similarity = <<1, 1>>]
    /\ hit' = [kind |-> "concat", page |-> pg, idx |-> block_idx]
    /\ matched_blocks' = matched_blocks \cup {block_key, <<pg, block_idx + 1>>}
    /\ pc' = "after"
    /\ UNCHANGED <<toc_entries, pages_data, results, entry_idx, pg, block_idx,
                   best_similarity, suggestions, hits, claimed_at_start,
                   call_no, first_results, first_inputs, other_than_matcher>>

\* fuzzy: a ratio at or above the threshold and above the best so far is
\* recorded; the scan goes on
ScanFuzzyBest ==
    /\ AtBlock
    /\ ~IsClaimed(block_key)
    /\ ~ExactPrefix
    /\ ~ConcatPrefix
    /\ GE(similarity, fuzzy_threshold)
    /\ GT(similarity, best_similarity)
    /\ best_similarity' = similarity
    /\ mr' = [mr EXCEPT !.matched = TRUE, !.matched_text = block.text,
                        !.page_num = pg, !.similarity = similarity]
    /\ hit' = [kind |-> "fuzzy", page |-> pg, idx |-> block_idx]
    /\ block_idx' = block_idx + 1
    /\ UNCHANGED <<toc_entries, pages_data, results, matched_blocks, entry_idx,
                   pc, pg, suggestions, hits, claimed_at_start, call_no,
                   first_results, first_inputs, other_than_matcher>>

\* otherwise a ratio at or above the suggestion threshold becomes a suggestion
ScanSuggest ==
    /\ AtBlock
    /\ ~IsClaimed(block_key)
    /\ ~ExactPrefix
    /\ ~ConcatPrefix
    /\ ~(GE(similarity, fuzzy_threshold) /\ GT(similarity, best_similarity))
    /\ GE(similarity, suggestion_threshold)
    /\ suggestions' = Append(suggestions,
                             [text |-> block.text, page |-> pg,
                              similarity |-> round2(similarity)])
    /\ block_idx' = block_idx + 1
    /\ UNCHANGED <<toc_entries, pages_data, results, matched_blocks, entry_idx,
                   pc, pg, mr, best_similarity, hit, hits, claimed_at_start,
                   call_no, first_results, first_inputs, other_than_matcher>>

\* a block that is no match and no suggestion
ScanPass ==
    /\ AtBlock
    /\ ~IsClaimed(block_key)
    /\ ~ExactPrefix
    /\ ~ConcatPrefix
    /\ ~(GE(similarity, fuzzy_threshold) /\ GT(similarity, best_similarity))
    /\ ~GE(similarity, suggestion_threshold)
    /\ block_idx' = block_idx + 1
    /\ UNCHANGED <<toc_entries, pages_data, results, matched_blocks, entry_idx,
                   pc, pg, mr, best_similarity, suggestions, hit, hits,
                   claimed_at_start, call_no, first_results, first_inputs, other_than_matcher>>

\* the blocks of the page are used up (or the page has no entry): the scan
\* ends on a similarity of 1.0 or after the last page, else the next page is taken
EndPage ==
    /\ pc = "scan"
    /\ pg < search_end(entry)
    /\ pg \notin DOMAIN pages_data \/ block_idx >= Len(pages_data[pg])
    /\ IF (pg \in DOMAIN pages_data /\ ScanComplete(mr)) \/ pg + 1 >= search_end(entry)
       THEN pc' = "after" /\ UNCHANGED <<pg, block_idx>>
       ELSE pc' = "scan" /\ pg' = pg + 1 /\ block_idx' = 0
    /\ UNCHANGED <<toc_entries, pages_data, results, matched_blocks, entry_idx,
                   mr, best_similarity, suggestions, hit, hits, claimed_at_start,
                   call_no, first_results, first_inputs, other_than_matcher>>

\* the keys the fuzzy registration adds: on every page of the window the first
\* unclaimed block whose text equals matched_text (its break leaves the inner
\* loop only)
FuzzyClaims(m) ==
    {<<p, bi>> \in UNION {{p} \X (0..(Len(pages_data[p]) - 1)) :
                            p \in (search_start(m.toc_entry)..(search_end(m.toc_entry) - 1))
                                  \cap DOMAIN pages_data} :
        /\ pages_data[p][bi + 1].text = m.matched_text
        /\ <<p, bi>> \notin matched_blocks
        /\ \A bj \in 0..(bi - 1) :
              ~(pages_data[p][bj + 1].text = m.matched_text
                /\ <<p, bj>> \notin matched_blocks)}

RECURSIVE InsertBySimilarity(_, _)
InsertBySimilarity(sorted, x) ==
    IF sorted = <<>> THEN <<x>>
    ELSE IF Head(sorted).similarity >= x.similarity
         THEN <<Head(sorted)>> \o InsertBySimilarity(Tail(sorted), x)
         ELSE <<x>> \o sorted

\* suggestions.sort(key=similarity, reverse=True): stable, descending
RECURSIVE sort_suggestions(_)
sort_suggestions(s) ==
    IF s = <<>> THEN <<>>
    ELSE InsertBySimilarity(sort_suggestions(SubSeq(s, 1, Len(s) - 1)), s[Len(s)])

\* an exact or concatenated match is stored; its keys are claimed already
FinishExact ==
    /\ pc = "after"
    /\ mr.matched
    /\ ~(mr.matched /\ ~GE(mr.similarity, <<1, 1>>))
    /\ results' = AppendResult(results, mr)
    /\ hits' = Append(hits, hit)
    /\ entry_idx' = entry_idx + 1
    /\ pc' = "for"
    /\ UNCHANGED <<toc_entries, pages_data, matched_blocks, pg, block_idx, mr,
                   best_similarity, suggestions, hit, claimed_at_start,
                   call_no, first_results, first_inputs, other_than_matcher>>

\* a fuzzy match is stored after its block is registered
FinishFuzzy ==
    /\ pc = "after"
    /\ mr.matched /\ ~GE(mr.similarity, <<1, 1>>)
    /\ matched_blocks' = matched_blocks \cup FuzzyClaims(mr)
    /\ results' = AppendResult(results, mr)
    /\ hits' = Append(hits, hit)
    /\ entry_idx' = entry_idx + 1
    /\ pc' = "for"
    /\ UNCHANGED <<toc_entries, pages_data, pg, block_idx, mr, best_similarity,
                   suggestions, hit, claimed_at_start, call_no, first_results,
                   first_inputs, other_than_matcher>>

FinishUnmatchedUncut ==
    /\ pc = "after"
    /\ ~mr.matched
    /\ mr' = [mr EXCEPT !.suggestions = sort_suggestions(suggestions)]
    /\ results' = AppendResult(results, mr')
    /\ hits' = Append(hits, hit)
    /\ entry_idx' = entry_idx + 1
    /\ pc' = "for"
    /\ UNCHANGED <<toc_entries, pages_data, matched_blocks, pg, block_idx,
                   best_similarity, suggestions, hit, claimed_at_start,
                   call_no, first_results, first_inputs, other_than_matcher>>

\* no match: the best max_suggestions suggestions are stored with the result
FinishUnmatched ==
    /\ pc = "after"
    /\ ~mr.matched
    /\ mr' = [mr EXCEPT !.suggestions =
                 SubSeq(sort_suggestions(suggestions), 1,
                        Min(max_suggestions, Len(suggestions)))]
    /\ results' = AppendResult(results, mr')
    /\ hits' = Append(hits, hit)
    /\ entry_idx' = entry_idx + 1
    /\ pc' = "for"
    /\ UNCHANGED <<toc_entries, pages_data, matched_blocks, pg, block_idx,
                   best_similarity, suggestions, hit, claimed_at_start,
                   call_no, first_results, first_inputs, other_than_matcher>>

\* the for loop is used up: results is returned
Return ==
    /\ pc = "for"
    /\ entry_idx > Len(toc_entries)
    /\ pc' = "done"
    /\ first_results' = IF call_no = 1 THEN results ELSE first_results
    /\ UNCHANGED <<toc_entries, pages_data, results, matched_blocks, entry_idx,
                   pg, block_idx, mr, best_similarity, suggestions, hit, hits,
                   claimed_at_start, call_no, first_inputs, other_than_matcher>>

\* other documents the converter is given between two runs of the first one
OtherInputs ==
    {<<(<<TocEntry(<<"a", " ", "b">>, 1, TRUE)>>),
       [p \in Pages |-> IF p = body_start THEN <<[text |-> <<"a", " ", "b">>]>>
                        ELSE <<>>]>>,
     <<(<<TocEntry(<<"b">>, 1, TRUE), TocEntry(<<"a", " ", "b">>, 2, TRUE)>>),
       [p \in Pages |-> IF p = body_start
                        THEN <<[text |-> <<"a">>], [text |-> <<"B">>]>>
                        ELSE <<>>]>>}

\* the same converter is called again: after the first document another one,
\* then the first one once more, and so on in turns
CallAgain ==
    /\ pc = "done"
    /\ call_no < MaxCalls
    /\ call_no' = call_no + 1
    /\ IF call_no % 2 = 1
       THEN \E inp \in OtherInputs : toc_entries' = inp[1] /\ pages_data' = inp[2]
       ELSE toc_entries' = first_inputs[1] /\ pages_data' = first_inputs[2]
    /\ pc' = "call"
    /\ UNCHANGED <<results, matched_blocks, entry_idx, pg, block_idx, mr,
                   best_similarity, suggestions, hit, hits, claimed_at_start,
                   first_results, first_inputs, other_than_matcher>>

NormalizerIdle ==
    /\ nx = <<>>
    /\ ny = <<>>
    /\ n1 = <<>>
    /\ n2 = <<>>
    /\ nv = <<>>
    /\ npc = "idle"

Init ==
    /\ NormalizerIdle
    /\ ParserIdle
    /\ ConvertIdle
    /\ HeadingIdle
    /\ LayoutIdle
    /\ BatchIdle
    /\ toc_entries \in TocLists
    /\ pages_data \in Documents
    /\ results = <<>>
    /\ matched_blocks = {}
    /\ entry_idx = 0
    /\ pc = "call"
    /\ pg = 0
    /\ block_idx = 0
    /\ mr = <<>>
    /\ best_similarity = <<0, 1>>
    /\ suggestions = <<>>
    /\ hit = NoHit
    /\ hits = <<>>
    /\ claimed_at_start = {}
    /\ call_no = 1
    /\ first_results = <<>>
    /\ first_inputs = <<toc_entries, pages_data>>

Next ==
    \/ Call
    \/ SkipEntry
    \/ BeginScan
    \/ ScanClaimed
    \/ ScanExact
    \/ ScanConcat
    \/ ScanFuzzyBest
    \/ ScanSuggest
    \/ ScanPass
    \/ EndPage
    \/ FinishExact
    \/ FinishFuzzy
    \/ FinishUnmatched
    \/ Return

Spec == Init /\ [][Next]_vars

NextRerun == Next \/ CallAgain

SpecRerun == Init /\ [][NextRerun]_vars

\* a body whose first page holds one block more than max_suggestions
CrowdedDocuments ==
    {[p \in Pages |-> IF p = body_start THEN BlocksOn(s, p) ELSE <<>>] :
        s \in {c \in SeqsUpTo({body_start} \X BlockTexts, max_suggestions + 1) :
                  Len(c) = max_suggestions + 1}}

InitCrowded ==
    /\ NormalizerIdle
    /\ ParserIdle
    /\ ConvertIdle
    /\ HeadingIdle
    /\ LayoutIdle
    /\ BatchIdle
    /\ toc_entries \in TocLists
    /\ pages_data \in CrowdedDocuments
    /\ results = <<>>
    /\ matched_blocks = {}
    /\ entry_idx = 0
    /\ pc = "call"
    /\ pg = 0
    /\ block_idx = 0
    /\ mr = <<>>
    /\ best_similarity = <<0, 1>>
    /\ suggestions = <<>>
    /\ hit = NoHit
    /\ hits = <<>>
    /\ claimed_at_start = {}
    /\ call_no = 1
    /\ first_results = <<>>
    /\ first_inputs = <<toc_entries, pages_data>>

SpecCrowded == InitCrowded /\ [][Next]_vars

\* n times the character c
Rep(c, n) == [i \in 1..n |-> c]

\* a title and a body fragment that share their first 33 of 41 and 42
\* characters: their ratio 66/83 lies below fuzzy_threshold and above 0.795
LongTitle == Rep("x", 33) \o Rep("y", 8)
LongFragment == Rep("x", 33) \o Rep("z", 9)

\* the inputs of Init and one call with the long title
LongInputs ==
    (TocLists \X Documents)
        \cup {<<(<<TocEntry(LongTitle, 1, TRUE)>>),
                [p \in Pages |-> IF p = body_start
                                 THEN <<[text |-> LongFragment], [text |-> <<"a">>]>>
                                 ELSE <<>>]>>}

InitLong ==
    /\ NormalizerIdle
    /\ ParserIdle
    /\ ConvertIdle
    /\ HeadingIdle
    /\ LayoutIdle
    /\ BatchIdle
    /\ \E inp \in LongInputs : toc_entries = inp[1] /\ pages_data = inp[2]
    /\ results = <<>>
    /\ matched_blocks = {}
    /\ entry_idx = 0
    /\ pc = "call"
    /\ pg = 0
    /\ block_idx = 0
    /\ mr = <<>>
    /\ best_similarity = <<0, 1>>
    /\ suggestions = <<>>
    /\ hit = NoHit
    /\ hits = <<>>
    /\ claimed_at_start = {}
    /\ call_no = 1
    /\ first_results = <<>>
    /\ first_inputs = <<toc_entries, pages_data>>

SpecLong == InitLong /\ [][Next]_vars

\* the inputs of Init and calls with titles and fragments that end in a
\* number: the parser keeps the number of "a2 .... 1", the extraction that
\* of the fragment "a1"
NumberedTexts == {<<"a", "1">>, <<"a", "2">>}

NumberedInputs ==
    (TocLists \X Documents)
        \cup {<<ts, [p \in Pages |-> IF p = body_start THEN bs ELSE <<>>]>> :
                ts \in SeqsUpTo({TocEntry(t, 1, TRUE) : t \in NumberedTexts},
                                MaxEntries) \ {<<>>},
                bs \in SeqsUpTo({[text |-> t] : t \in NumberedTexts}, MaxBlocks)}

InitNumbered ==
    /\ NormalizerIdle
    /\ ParserIdle
    /\ ConvertIdle
    /\ HeadingIdle
    /\ LayoutIdle
    /\ BatchIdle
    /\ \E inp \in NumberedInputs : toc_entries = inp[1] /\ pages_data = inp[2]
    /\ results = <<>>
    /\ matched_blocks = {}
    /\ entry_idx = 0
    /\ pc = "call"
    /\ pg = 0
    /\ block_idx = 0
    /\ mr = <<>>
    /\ best_similarity = <<0, 1>>
    /\ suggestions = <<>>
    /\ hit = NoHit
    /\ hits = <<>>
    /\ claimed_at_start = {}
    /\ call_no = 1
    /\ first_results = <<>>
    /\ first_inputs = <<toc_entries, pages_data>>

SpecNumbered == InitNumbered /\ [][Next]_vars

-----------------------------------------------------------------------------
(* PdfConverter._parse_toc_entries and its helpers *)

\* the character classes of the parser's regular expressions:
\* \s, \d, \. and [.\s]
InClass(c, cls) ==
    CASE cls = "s" -> IsSpace(c)
      [] cls = "d" -> IsDigit(c)
      [] cls = "dot" -> c = "."
      [] cls = "dot_or_s" -> c = "." \/ IsSpace(c)

\* the position after the maximal run of class cls that starts at i
RECURSIVE RunEnd(_, _, _)
RunEnd(t, i, cls) ==
    IF i <= Len(t) /\ InClass(t[i], cls) THEN RunEnd(t, i + 1, cls) ELSE i

\* t[i..] matches the pattern to the end ($): a pattern is a sequence of
\* <<class, least count>> runs, each greedy; neighbouring classes are disjoint
RECURSIVE RunsMatch(_, _, _)
RunsMatch(t, i, pat) ==
    IF pat = <<>> THEN i > Len(t)
    ELSE LET j == RunEnd(t, i, Head(pat)[1])
         IN  j - i >= Head(pat)[2] /\ RunsMatch(t, j, Tail(pat))

\* re.search: the leftmost position where the pattern matches, 0 if none
LeftmostMatch(t, pat) ==
    LET starts == {i \in 1..Len(t) : RunsMatch(t, i, pat)}
    IN  IF starts = {} THEN 0 ELSE CHOOSE i \in starts : \A j \in starts : i <= j

\* re.sub(pattern, '', t) for a pattern anchored at the end
sub_tail(t, pat) ==
    LET m == LeftmostMatch(t, pat)
    IN  IF m = 0 THEN t ELSE SubSeq(t, 1, m - 1)

\* r'[.\s]*(\d+)\s*$'
page_num_pattern == <<(<<"dot_or_s", 0>>), (<<"d", 1>>), (<<"s", 0>>)>>
\* r'\s*\.{2,}\s*\d+\s*$'
dot_leader_pattern ==
    <<(<<"s", 0>>), (<<"dot", 2>>), (<<"s", 0>>), (<<"d", 1>>), (<<"s", 0>>)>>
\* r'\s+\d+\s*$'
bare_number_pattern == <<(<<"s", 1>>), (<<"d", 1>>), (<<"s", 0>>)>>

DigitValue(c) ==
    CASE c = "0" -> 0 [] c = "1" -> 1 [] c = "2" -> 2 [] c = "3" -> 3
      [] c = "4" -> 4 [] c = "5" -> 5 [] c = "6" -> 6 [] c = "7" -> 7
      [] c = "8" -> 8 [] c = "9" -> 9

\* int(digits)
RECURSIVE int(_)
int(digits) ==
    IF digits = <<>> THEN 0
    ELSE 10 * int(SubSeq(digits, 1, Len(digits) - 1)) + DigitValue(digits[Len(digits)])

\* page_num_match.group(1): the digits of the leftmost match
page_num_group(line) ==
    LET m == LeftmostMatch(line, page_num_pattern)
        d == RunEnd(line, m, "dot_or_s")
    IN  SubSeq(line, d, RunEnd(line, d, "d") - 1)

clean_without_leader_only(line) == str_strip(sub_tail(line, dot_leader_pattern))

\* clean_text: dot leader and page number removed, then a bare trailing number
clean_of(line) ==
    str_strip(sub_tail(sub_tail(line, dot_leader_pattern), bare_number_pattern))

\* re.match(r'^\d+$', clean)
IsAllDigits(t) == t # <<>> /\ \A i \in 1..Len(t) : IsDigit(t[i])

toc_keywords ==
    {<<"T", "a", "b", "l", "e", " ", "o", "f", " ", "C", "o", "n", "t",
      "e", "n", "t", "s">>,
     <<"C", "o", "n", "t", "e", "n", "t", "s">>}

non_heading_prefixes ==
    {<<"F", "i", "g", "u", "r", "e">>,
     <<"T", "a", "b", "l", "e">>,
     <<"L", "i", "s", "t", " ", "o", "f">>}

heading_prefixes_as_section == {<<"A", "p", "p", "e", "n", "d", "i", "x">>}

is_section_heading_case_sensitive(text) ==
    \A prefix \in non_heading_prefixes : ~StartsWith(text, prefix)

\* _is_section_heading: no configured prefix starts the text, case ignored
is_section_heading(text) ==
    \A prefix \in non_heading_prefixes :
        ~StartsWith(str_lower(text), str_lower(prefix))

\* the end of (?:\.\d+)* read from position i
RECURSIVE DottedEnd(_, _)
DottedEnd(t, i) ==
    IF i + 1 <= Len(t) /\ t[i] = "." /\ IsDigit(t[i + 1])
    THEN DottedEnd(t, RunEnd(t, i + 1, "d"))
    ELSE i

\* str.rstrip('.')
RECURSIVE rstrip_dots(_)
rstrip_dots(t) ==
    IF t # <<>> /\ t[Len(t)] = "." THEN rstrip_dots(SubSeq(t, 1, Len(t) - 1)) ELSE t

\* _extract_numbering: r'^(\d+(?:\.\d+)*\.?)\s', the group without its last dot
extract_numbering(text) ==
    IF text = <<>> \/ ~IsDigit(text[1]) THEN <<>>
    ELSE LET e == DottedEnd(text, RunEnd(text, 1, "d"))
             g == IF e <= Len(text) /\ text[e] = "." THEN e + 1 ELSE e
         IN  IF g <= Len(text) /\ IsSpace(text[g])
             THEN rstrip_dots(SubSeq(text, 1, g - 1))
             ELSE <<>>

\* numbering.count('.')
count_dots(t) == Cardinality({i \in 1..Len(t) : t[i] = "."})

level_uncapped(level) == level

\* min(level, 6)
level_capped(level) == Min(level, 6)

\* _determine_heading_level
determine_heading_level(text, numbering) ==
    IF numbering # <<>> THEN level_capped(count_dots(numbering) + 1)
    ELSE IF \E prefix \in heading_prefixes_as_section :
                StartsWith(str_lower(text), str_lower(prefix))
         THEN 1
         ELSE 1

RejectionKeepsEmpty(line) ==
    IF line = <<>> THEN "blank"
    ELSE IF str_lower(line) \in {str_lower(kw) : kw \in toc_keywords} THEN "keyword"
    ELSE IF LeftmostMatch(line, page_num_pattern) = 0 THEN "no page number"
    ELSE IF clean_of(line) # <<>> /\ IsAllDigits(clean_of(line)) THEN "numeric"
    ELSE "none"

RejectionKeepsNumbers(line) ==
    IF line = <<>> THEN "blank"
    ELSE IF str_lower(line) \in {str_lower(kw) : kw \in toc_keywords} THEN "keyword"
    ELSE IF LeftmostMatch(line, page_num_pattern) = 0 THEN "no page number"
    ELSE IF clean_of(line) = <<>> THEN "empty"
    ELSE "none"

\* why a stripped line gives no entry; "none" when it gives one
Rejection(line) ==
    IF line = <<>> THEN "blank"
    ELSE IF str_lower(line) \in {str_lower(kw) : kw \in toc_keywords} THEN "keyword"
    ELSE IF LeftmostMatch(line, page_num_pattern) = 0 THEN "no page number"
    ELSE IF clean_of(line) = <<>> THEN "empty"
    ELSE IF IsAllDigits(clean_of(line)) THEN "numeric"
    ELSE "none"

\* TocEntry(raw_text=line, clean_text=clean, ...)
ParsedEntry(line) ==
    LET clean == clean_of(line)
        numbering == extract_numbering(clean)
    IN  [raw_text |-> line,
         clean_text |-> clean,
         heading_level |-> determine_heading_level(clean, numbering),
         page_number |-> int(page_num_group(line)),
         is_section |-> is_section_heading(clean),
         numbering |-> numbering]

\* lines of a TOC page: every short line over a small alphabet ...
LineAlphabet == {"a", "1", ".", " "}

RECURSIVE LinesUpTo(_)
LinesUpTo(n) ==
    IF n = 0 THEN {<<>>}
    ELSE LET shorter == LinesUpTo(n - 1)
         IN  shorter \cup {Append(s, c) : s \in shorter, c \in LineAlphabet}

\* ... and lines as they stand in a printed TOC
ScenarioA ==
    <<"3", ".", "2", " ", "S", "y", "s", "t", "e", "m", " ", "O", "v",
      "e", "r", "v", "i", "e", "w", " ", ".", ".", ".", ".", ".", " ",
      "1", "4">>
ScenarioB ==
    <<"F", "i", "g", "u", "r", "e", " ", "4", ":", " ", "B", "l", "o",
      "c", "k", " ", "D", "i", "a", "g", "r", "a", "m", " ", ".", ".",
      ".", ".", ".", ".", ".", ".", ".", ".", " ", "9">>
DeepLine ==
    <<"1", ".", "1", ".", "1", ".", "1", ".", "1", ".", "1", ".", "1",
      " ", "a", " ", "5">>

SampleLines ==
    {ScenarioA, ScenarioB, DeepLine,
     <<"C", "o", "n", "t", "e", "n", "t", "s">>,
     <<"A", "p", "p", "e", "n", "d", "i", "x", " ", "A", " ", "7">>,
     <<"C", "h", "a", "p", "t", "e", "r", " ", "2", " ", ".", ".", ".",
      ".", " ", "5">>,
     <<"1", ".", " ", "S", "c", "o", "p", "e", " ", "2">>,
     <<"T", "A", "B", "L", "E", " ", "1", " ", "x", " ", "3">>,
     <<"7", " ", ".", ".", ".", ".", " ", "7">>}

\* ... and lines put together as '<dotted-number> <title> <dot-leader> <page>'
Numberings ==
    {[text |-> <<"1">>, numbering |-> <<"1">>, level |-> 1],
     [text |-> <<"1", ".">>, numbering |-> <<"1">>, level |-> 1],
     [text |-> <<"3", ".", "2">>, numbering |-> <<"3", ".", "2">>, level |-> 2]}

Titles ==
    {[text |-> <<"a">>, kept |-> <<"a">>],
     [text |-> <<"a", " ", "1">>, kept |-> <<"a">>],
     [text |-> <<"a", "1">>, kept |-> <<"a", "1">>],
     [text |-> <<"S", "y", "s", "t", "e", "m", " ",
                "O", "v", "e", "r", "v", "i", "e", "w">>,
      kept |-> <<"S", "y", "s", "t", "e", "m", " ",
                "O", "v", "e", "r", "v", "i", "e", "w">>]}

DotLeaders == {<<".", ".", ".", ".">>, <<".", ".", ".", ".", ".">>}

PageNumbers == {[text |-> <<"5">>, value |-> 5], [text |-> <<"1", "4">>, value |-> 14]}

FormLine(n, t, l, p) == n.text \o <<" ">> \o t.text \o <<" ">> \o l \o <<" ">> \o p.text

FormedLines ==
    {FormLine(n, t, l, p) :
        n \in Numberings, t \in Titles, l \in DotLeaders, p \in PageNumbers}

TocTexts ==
    {<<l>> : l \in LinesUpTo(MaxLineLen) \cup FormedLines}
        \cup (SeqsUpTo(SampleLines, MaxLines) \ {<<>>})

line == str_strip(toc_text[line_idx])

InitParse ==
    /\ MatcherIdle
    /\ NormalizerIdle
    /\ ConvertIdle
    /\ HeadingIdle
    /\ LayoutIdle
    /\ BatchIdle
    /\ toc_text \in TocTexts
    /\ line_idx = 1
    /\ entries = <<>>
    /\ ppc = "lines"

\* a blank line, a keyword line, a line without a page number, a line whose
\* clean text is empty or a number: continue
SkipLine ==
    /\ ppc = "lines"
    /\ line_idx <= Len(toc_text)
    /\ Rejection(line) # "none"
    /\ line_idx' = line_idx + 1
    /\ UNCHANGED <<toc_text, entries, ppc, other_than_parser>>

\* entries.append(TocEntry(...))
AppendEntry ==
    /\ ppc = "lines"
    /\ line_idx <= Len(toc_text)
    /\ Rejection(line) = "none"
    /\ entries' = Append(entries, ParsedEntry(line))
    /\ line_idx' = line_idx + 1
    /\ UNCHANGED <<toc_text, ppc, other_than_parser>>

\* return entries
ParseReturn ==
    /\ ppc = "lines"
    /\ line_idx > Len(toc_text)
    /\ ppc' = "done"
    /\ UNCHANGED <<toc_text, line_idx, entries, other_than_parser>>

NextParse == SkipLine \/ AppendEntry \/ ParseReturn

SpecParse == InitParse /\ [][NextParse]_vars

-----------------------------------------------------------------------------
(* utils.escape_html and the HTML of one text block *)

\* str.replace(c, by) for a one-character c
RECURSIVE replace_char(_, _, _)
replace_char(t, c, by) ==
    IF t = <<>> THEN <<>>
    ELSE (IF Head(t) = c THEN by ELSE <<Head(t)>>) \o replace_char(Tail(t), c, by)

Entity ==
    [amp |-> <<"&", "a", "m", "p", ";">>,
     lt |-> <<"&", "l", "t", ";">>,
     gt |-> <<"&", "g", "t", ";">>,
     quot |-> <<"&", "q", "u", "o", "t", ";">>,
     apos |-> <<"&", "#", "3", "9", ";">>]

escape_html_ampersand_last(text) ==
    replace_char(
      replace_char(
        replace_char(
          replace_char(
            replace_char(text, "<", Entity.lt),
            ">", Entity.gt),
          "\"", Entity.quot),
        "'", Entity.apos),
      "&", Entity.amp)

\* & first, then <, >, " and '
escape_html(text) ==
    replace_char(
      replace_char(
        replace_char(
          replace_char(
            replace_char(text, "&", Entity.amp),
            "<", Entity.lt),
          ">", Entity.gt),
        "\"", Entity.quot),
      "'", Entity.apos)

\* f'{level}' for a heading level
LevelChar(level) == <<"1", "2", "3", "4", "5", "6">>[level]

\* f'<h{level}>{escape_html(block_text)}</h{level}>'
heading_html(level, text) ==
    <<"<", "h", LevelChar(level), ">">> \o escape_html(text)
        \o <<"<", "/", "h", LevelChar(level), ">">>

\* f'<p>{escaped}</p>', escaped wrapped in <strong> and then in <em>
paragraph_html(b) ==
    LET escaped == escape_html(b.text)
        strong == IF b.is_bold
                  THEN <<"<", "s", "t", "r", "o", "n", "g", ">">> \o escaped
                           \o <<"<", "/", "s", "t", "r", "o", "n", "g", ">">>
                  ELSE escaped
        em == IF b.is_italic
              THEN <<"<", "e", "m", ">">> \o strong \o <<"<", "/", "e", "m", ">">>
              ELSE strong
    IN  <<"<", "p", ">">> \o em \o <<"<", "/", "p", ">">>

-----------------------------------------------------------------------------
(* PdfConverter._generate_html for pages without tables and images *)

\* the results that enter heading_map: matched, section, normalized length >= 2
HeadingSources(rs) ==
    {i \in 1..Len(rs) :
        /\ rs[i].matched
        /\ rs[i].toc_entry.is_section
        /\ Len(normalize_text(rs[i].matched_text)) >= 2}

\* heading_map[normalized] = mr.toc_entry, a later result replacing an earlier
heading_map(rs) ==
    [k \in {normalize_text(rs[i].matched_text) : i \in HeadingSources(rs)} |->
        LET owners == {i \in HeadingSources(rs) : normalize_text(rs[i].matched_text) = k}
        IN  rs[CHOOSE i \in owners : \A j \in owners : i >= j].toc_entry]

\* the HTML of one block: none for a blank or digits-only block, a heading for
\* a block whose normalized text is a key of the map, else a paragraph
render_block(b, hm) ==
    IF str_strip(b.text) = <<>> THEN <<>>
    ELSE IF IsAllDigits(str_strip(b.text)) THEN <<>>
    ELSE IF normalize_text(b.text) \in DOMAIN hm
         THEN <<heading_html(hm[normalize_text(b.text)].heading_level, b.text)>>
         ELSE <<paragraph_html(b)>>

\* the parts of one page from block i on; page and idx record where a part
\* comes from
RECURSIVE page_parts(_, _, _, _)
page_parts(blocks, p, i, hm) ==
    IF i > Len(blocks) THEN <<>>
    ELSE (IF render_block(blocks[i], hm) = <<>> THEN <<>>
          ELSE <<[page |-> p, idx |-> i - 1, html |-> render_block(blocks[i], hm)[1]]>>)
         \o page_parts(blocks, p, i + 1, hm)

\* for page_num in sorted(pages_data.keys())
RECURSIVE pages_parts(_, _, _)
pages_parts(pd, todo, hm) ==
    IF todo = {} THEN <<>>
    ELSE LET p == CHOOSE x \in todo : \A y \in todo : x <= y
         IN  page_parts(pd[p], p, 1, hm) \o pages_parts(pd, todo \ {p}, hm)

generate_html(pd, rs) == pages_parts(pd, DOMAIN pd, heading_map(rs))

-----------------------------------------------------------------------------
(* PdfConverter._generate_report *)

\* the lines one MatchResult adds to the report
report_lines(m) ==
    IF ~m.toc_entry.is_section
    THEN <<[kind |-> "skipped", text |-> m.toc_entry.clean_text]>>
    ELSE IF m.matched
    THEN <<[kind |-> "matched", text |-> m.toc_entry.clean_text,
            level |-> m.toc_entry.heading_level, page |-> m.page_num + 1,
            similarity |-> round2(m.similarity)]>>
    ELSE <<[kind |-> "failed", text |-> m.toc_entry.clean_text,
            level |-> m.toc_entry.heading_level, page |-> m.toc_entry.page_number]>>
         \o [n \in 1..Len(m.suggestions) |->
                [kind |-> "suggestion",
                 text |-> SubSeq(m.suggestions[n].text, 1,
                                 Min(60, Len(m.suggestions[n].text))),
                 page |-> m.suggestions[n].page + 1,
                 similarity |-> m.suggestions[n].similarity]]

RECURSIVE generate_report(_)
generate_report(rs) ==
    IF rs = <<>>
    THEN [lines |-> <<>>, section_total |-> 0, section_matched |-> 0,
          section_failed |-> 0]
    ELSE LET before == generate_report(SubSeq(rs, 1, Len(rs) - 1))
             m == rs[Len(rs)]
             section == m.toc_entry.is_section
         IN  [lines |-> before.lines \o report_lines(m),
              section_total |-> before.section_total + (IF section THEN 1 ELSE 0),
              section_matched |->
                  before.section_matched + (IF section /\ m.matched THEN 1 ELSE 0),
              section_failed |->
                  before.section_failed + (IF section /\ ~m.matched THEN 1 ELSE 0)]

match_rate_of_all_lines(rep) ==
    IF rep.section_total > 0
    THEN <<rep.section_matched * 100,
           Cardinality({n \in 1..Len(rep.lines) : rep.lines[n].kind # "suggestion"})>>
    ELSE <<0, 1>>

\* (section_matched / section_total * 100) if section_total > 0 else 0, as a
\* fraction
match_rate(rep) ==
    IF rep.section_total > 0
    THEN <<rep.section_matched * 100, rep.section_total>>
    ELSE <<0, 1>>

-----------------------------------------------------------------------------
(* PdfConverter._find_toc_pages and PdfConverter._extract_pages_data *)

toc_max_search_pages == 10

\* needle in text
Contains(text, needle) ==
    \E i \in 1..(Len(text) - Len(needle) + 1) :
        SubSeq(text, i, i + Len(needle) - 1) = needle

\* page.get_text(): the lines of the page, each ended by a newline
RECURSIVE page_text(_)
page_text(blocks) ==
    IF blocks = <<>> THEN <<>>
    ELSE Head(blocks).text \o <<"\n">> \o page_text(Tail(blocks))

has_keyword(text) ==
    \E keyword \in toc_keywords : Contains(str_lower(text), str_lower(keyword))

has_dot_leader_three(text) == Contains(text, <<".", ".", ".">>)

\* dot_pattern.search(text): r'\.{4,}'
has_dot_leader(text) == Contains(text, <<".", ".", ".", ".">>)

\* (toc_start, toc_end), or <<>> for (None, None)
find_toc_pages_unlimited(pages) ==
    LET marked == {p \in DOMAIN pages : has_keyword(page_text(pages[p]))}
    IN  IF marked = {} THEN <<>>
        ELSE <<CHOOSE p \in marked : \A r \in marked : p <= r,
               CHOOSE p \in marked : \A r \in marked : p <= r>>

find_toc_pages(pages) ==
    LET max_search == Min(toc_max_search_pages, Cardinality(DOMAIN pages))
        marked == {p \in 0..(max_search - 1) : has_keyword(page_text(pages[p]))}
    IN  IF marked = {} THEN <<>>
        ELSE LET toc_start == CHOOSE p \in marked : \A r \in marked : p <= r
                 undotted == {p \in (toc_start + 1)..(max_search - 1) :
                                 ~has_dot_leader(page_text(pages[p]))}
                 dotted == {p \in toc_start..(max_search - 1) :
                               has_dot_leader(page_text(pages[p]))} \cup {toc_start}
             IN  IF undotted # {}
                 THEN <<toc_start, (CHOOSE p \in undotted : \A r \in undotted : p <= r) - 1>>
                 ELSE <<toc_start, CHOOSE p \in dotted : \A r \in dotted : p >= r>>

\* text.split('\n') of the pages toc_start..toc_end, in order; the newline
\* that ends a page text leaves an empty last line
RECURSIVE toc_lines(_, _, _)
toc_lines(pages, from, to) ==
    IF from > to THEN <<>>
    ELSE [i \in 1..Len(pages[from]) |-> pages[from][i].text] \o <<(<<>>)>>
         \o toc_lines(pages, from + 1, to)

\* the text blocks of a page whose stripped text is not empty
RECURSIVE text_blocks(_)
text_blocks(blocks) ==
    IF blocks = <<>> THEN <<>>
    ELSE (IF str_strip(Head(blocks).text) = <<>> THEN <<>>
          ELSE <<[Head(blocks) EXCEPT !.text = str_strip(Head(blocks).text)]>>)
         \o text_blocks(Tail(blocks))

\* {page_num: text_blocks for page_num in range(body_start, len(doc))}
extract_pages_data(pages, start) ==
    [p \in start..(Cardinality(DOMAIN pages) - 1) |-> text_blocks(pages[p])]

-----------------------------------------------------------------------------
(* PdfConverter.convert *)

\* a text block as the document access layer gives it
Block(t) == [text |-> t, is_bold |-> t = <<"B">>, is_italic |-> FALSE]

\* texts of the body blocks of a converted document: headings, running text
\* and a page number
ConvertBlockTexts == BlockTexts \cup {<<"1">>}

RECURSIVE PageBlocks(_, _)
PageBlocks(s, p) ==
    IF s = <<>> THEN <<>>
    ELSE (IF Head(s)[1] = p THEN <<Block(Head(s)[2])>> ELSE <<>>)
         \o PageBlocks(Tail(s), p)

BodyPlacements ==
    {s \in SeqsUpTo(Pages \X ConvertBlockTexts, MaxBlocks) :
        \A i \in 1..(Len(s) - 1) : s[i][1] <= s[i+1][1]}

\* the lines of a TOC page under its title line
ConvertTocLines ==
    {<<"a", " ", "b", " ", ".", ".", ".", ".", " ", "1">>,
     <<"B", " ", "2">>,
     <<"f", "i", "g", "u", "r", "e", " ", "a", " ", ".", ".", ".", ".", " ", "1">>}

ContentsLine == <<"C", "o", "n", "t", "e", "n", "t", "s">>

\* first pages: a TOC page, or a cover page without a marker keyword
FirstPages ==
    {<<Block(ContentsLine)>> \o [i \in 1..Len(ls) |-> Block(ls[i])] :
        ls \in SeqsUpTo(ConvertTocLines, MaxEntries)}
      \cup {<<Block(<<"a">>)>>}

\* documents of LastPage + 1 pages, and one whose only marker keyword stands
\* behind the pages that are searched
PageLists ==
    {[p \in 0..LastPage |-> IF p = 0 THEN first ELSE PageBlocks(s, p)] :
        first \in FirstPages, s \in BodyPlacements}
      \cup {[p \in 0..toc_max_search_pages |->
                IF p = toc_max_search_pages THEN <<Block(ContentsLine)>>
                ELSE <<Block(<<"a">>)>>]}

\* the file at output_path before the call: none, or an earlier conversion
OutputsBefore ==
    {[state |-> "absent", content |-> <<>>],
     [state |-> "complete", content |-> <<"old">>]}

\* the input path and what the environment does with it: exists() and the
\* suffix of the path, whether fitz.open succeeds, whether f.write succeeds
InputFiles ==
    {[exists |-> TRUE, is_pdf |-> TRUE, opens |-> TRUE, disk_ok |-> d,
      output_before |-> o, pages |-> pl] :
        d \in BOOLEAN, o \in OutputsBefore, pl \in PageLists}
      \cup {[exists |-> e, is_pdf |-> s, opens |-> f, disk_ok |-> TRUE,
             output_before |-> o, pages |-> [p \in 0..0 |-> <<Block(<<"a">>)>>]] :
                e \in BOOLEAN, s \in BOOLEAN, f \in BOOLEAN, o \in OutputsBefore}

\* ConversionResult(input_path)
NewConversionResult ==
    [success |-> FALSE, error_message |-> "None", warnings |-> <<>>]

input_error_without_suffix_check(f) ==
    IF ~f.exists THEN "file not found" ELSE "None"

\* the checks before the try block: the message of the failed one
input_error(f) ==
    IF ~f.exists THEN "file not found"
    ELSE IF ~f.is_pdf THEN "unsupported format"
    ELSE "None"

InitConvert ==
    /\ MatcherIdle
    /\ NormalizerIdle
    /\ ParserIdle
    /\ HeadingIdle
    /\ LayoutIdle
    /\ BatchIdle
    /\ input_file \in InputFiles
    /\ output_file = input_file.output_before
    /\ report_file = [state |-> "absent"]
    /\ cpc = "start"
    /\ result = NewConversionResult
    /\ toc_range = <<>>
    /\ body_start_page = 0
    /\ html_parts = <<>>

\* pages as _find_toc_pages tells them apart: with or without a marker
\* keyword (in either case), with a run of four periods, of three, or none
ScanPageKinds ==
    {<<Block(<<"a">>)>>,
     <<Block(ContentsLine)>>,
     <<Block(str_upper(ContentsLine))>>,
     <<Block(<<"a", " ", ".", ".", ".", ".", " ", "1">>)>>,
     <<Block(<<"a", ".", ".", ".">>)>>,
     <<Block(ContentsLine), Block(<<"a", " ", ".", ".", ".", ".", " ", "1">>)>>}

\* documents of up to MaxScanPages pages, and documents of one page more than
\* toc_max_search_pages whose last three pages vary
ScanPageLists ==
    {[p \in 0..(Len(s) - 1) |-> s[p + 1]] :
        s \in SeqsUpTo(ScanPageKinds, MaxScanPages) \ {<<>>}}
      \cup {[p \in 0..toc_max_search_pages |->
                IF p < toc_max_search_pages - 2 THEN <<Block(<<"a">>)>>
                ELSE s[p - toc_max_search_pages + 3]] :
                  s \in [1..3 -> ScanPageKinds]}

InitFindToc ==
    /\ MatcherIdle
    /\ NormalizerIdle
    /\ ParserIdle
    /\ HeadingIdle
    /\ LayoutIdle
    /\ BatchIdle
    /\ \E pl \in ScanPageLists :
          input_file = [exists |-> TRUE, is_pdf |-> TRUE, opens |-> TRUE,
                        disk_ok |-> TRUE,
                        output_before |-> [state |-> "absent", content |-> <<>>],
                        pages |-> pl]
    /\ output_file = input_file.output_before
    /\ report_file = [state |-> "absent"]
    /\ cpc = "start"
    /\ result = NewConversionResult
    /\ toc_range = <<>>
    /\ body_start_page = 0
    /\ html_parts = <<>>

\* not input_path.exists(), or the suffix is not .pdf: return result
RejectInput ==
    /\ cpc = "start"
    /\ input_error(input_file) # "None"
    /\ result' = [result EXCEPT !.error_message = input_error(input_file)]
    /\ cpc' = "returned"
    /\ UNCHANGED <<input_file, output_file, report_file, toc_range,
                   body_start_page, html_parts, other_than_convert>>

\* fitz.open raises: except Exception as e: result.error_message = str(e)
OpenFails ==
    /\ cpc = "start"
    /\ input_error(input_file) = "None"
    /\ ~input_file.opens
    /\ result' = [result EXCEPT !.error_message = "cannot open"]
    /\ cpc' = "returned"
    /\ UNCHANGED <<input_file, output_file, report_file, toc_range,
                   body_start_page, html_parts, other_than_convert>>

\* the document opens and _find_toc_pages runs: with a TOC its lines go to the
\* parser, without one the result gets a warning
LocateToc ==
    /\ cpc = "start"
    /\ input_error(input_file) = "None"
    /\ input_file.opens
    /\ toc_range' = find_toc_pages(input_file.pages)
    /\ IF toc_range' # <<>>
       THEN /\ toc_text' = toc_lines(input_file.pages, toc_range'[1], toc_range'[2])
            /\ line_idx' = 1
            /\ entries' = <<>>
            /\ ppc' = "lines"
            /\ cpc' = "parse"
            /\ UNCHANGED result
       ELSE /\ result' = [result EXCEPT !.warnings = Append(@, "no TOC")]
            /\ cpc' = "extract"
            /\ UNCHANGED parser_vars
    /\ UNCHANGED <<input_file, output_file, report_file, body_start_page,
                   html_parts, matcher_vars, normalizer_vars,
                   heading_vars, layout_vars, batch_vars>>

\* body_start and pages_data are set; with TOC entries the matcher is called
ExtractPages ==
    /\ \/ cpc = "parse" /\ ppc = "done"
       \/ cpc = "extract"
    /\ body_start_page' = IF toc_range # <<>> THEN toc_range[2] + 1 ELSE 0
    /\ pages_data' = extract_pages_data(input_file.pages, body_start_page')
    /\ IF entries # <<>>
       THEN /\ body_start_page' = body_start
            /\ toc_entries' = entries
            /\ pc' = "call"
            /\ cpc' = "match"
       ELSE /\ cpc' = "html"
            /\ UNCHANGED <<toc_entries, pc>>
    /\ UNCHANGED <<input_file, output_file, report_file, result, toc_range,
                   html_parts, results, matched_blocks, entry_idx, pg, block_idx,
                   mr, best_similarity, suggestions, hit, hits, claimed_at_start,
                   call_no, first_results, first_inputs, normalizer_vars,
                   parser_vars,
                   heading_vars, layout_vars, batch_vars>>

\* html_content = self._generate_html(...)
GenerateHtml ==
    /\ \/ cpc = "match" /\ pc = "done"
       \/ cpc = "html"
    /\ html_parts' = generate_html(pages_data, results)
    /\ cpc' = "write"
    /\ UNCHANGED <<input_file, output_file, report_file, result, toc_range,
                   body_start_page, other_than_convert>>

\* open(output_path, 'w'): the file is created, or cut to length 0
OpenOutput ==
    /\ cpc = "write"
    /\ output_file' = [state |-> "truncated", content |-> <<>>]
    /\ cpc' = "writing"
    /\ UNCHANGED <<input_file, report_file, result, toc_range, body_start_page,
                   html_parts, other_than_convert>>

\* f.write(html_content) and the file is closed
WriteHtml ==
    /\ cpc = "writing"
    /\ input_file.disk_ok
    /\ output_file' = [state |-> "complete", content |-> html_parts]
    /\ cpc' = "report"
    /\ UNCHANGED <<input_file, report_file, result, toc_range, body_start_page,
                   html_parts, other_than_convert>>

\* f.write raises (the text cannot be encoded, the disk is full): the except
\* block stores str(e)
WriteFails ==
    /\ cpc = "writing"
    /\ ~input_file.disk_ok
    /\ result' = [result EXCEPT !.error_message = "cannot write"]
    /\ cpc' = "returned"
    /\ UNCHANGED <<input_file, output_file, report_file, toc_range,
                   body_start_page, html_parts, other_than_convert>>

\* the report is written when there are match results; result.success = True
WriteReport ==
    /\ cpc = "report"
    /\ report_file' = IF results # <<>>
                      THEN [state |-> "complete", report |-> generate_report(results),
                            match_rate |-> match_rate(generate_report(results))]
                      ELSE report_file
    /\ result' = [result EXCEPT !.success = TRUE]
    /\ cpc' = "returned"
    /\ UNCHANGED <<input_file, output_file, toc_range, body_start_page,
                   html_parts, other_than_convert>>

NextConvert ==
    \/ RejectInput
    \/ OpenFails
    \/ LocateToc
    \/ SkipLine
    \/ AppendEntry
    \/ ParseReturn
    \/ ExtractPages
    \/ Call
    \/ SkipEntry
    \/ BeginScan
    \/ ScanClaimed
    \/ ScanExact
    \/ ScanConcat
    \/ ScanFuzzyBest
    \/ ScanSuggest
    \/ ScanPass
    \/ EndPage
    \/ FinishExact
    \/ FinishFuzzy
    \/ FinishUnmatched
    \/ Return
    \/ GenerateHtml
    \/ OpenOutput
    \/ WriteHtml
    \/ WriteFails
    \/ WriteReport

SpecConvert == InitConvert /\ [][NextConvert]_vars

\* convert up to the call of _find_toc_pages
NextFindToc == LocateToc

SpecFindToc == InitFindToc /\ [][NextFindToc]_vars

-----------------------------------------------------------------------------
(* Vocabulary of the claims *)

\* the search window as the claims state it
Target(e) == body_start + e.page_number - 1
InWindow(e, p) == Target(e) - page_window <= p /\ p <= Target(e) + page_window

\* the fragment keys of the document
Keys == UNION {{p} \X (0..(Len(pages_data[p]) - 1)) : p \in DOMAIN pages_data}
TextAt(k) == pages_data[k[1]][k[2] + 1].text

\* the fragment keys a stored result claims by its match: both fragments of
\* a concatenation, the one fragment of an exact-prefix or fuzzy match
ClaimedBy(i) ==
    CASE hits[i].kind = "concat" ->
             {<<hits[i].page, hits[i].idx>>, <<hits[i].page, hits[i].idx + 1>>}
      [] hits[i].kind \in {"exact", "fuzzy"} -> {<<hits[i].page, hits[i].idx>>}
      [] OTHER -> {}

\* the fragment at key k starts with the entry's normalized text
IsPrefixHit(e, k) ==
    StartsWith(normalize_text(TextAt(k)), normalize_text(e.clean_text))

\* the fragment at key k would match the entry: by prefix, joined with the
\* next fragment of its page, or by a ratio at or above fuzzy_threshold
IsMatching(e, k) ==
    \/ IsPrefixHit(e, k)
    \/ /\ k[2] + 1 < Len(pages_data[k[1]])
       /\ StartsWith(normalize_text(TextAt(k)) \o <<" ">>
                        \o normalize_text(TextAt(<<k[1], k[2] + 1>>)),
                     normalize_text(e.clean_text))
    \/ GE(ratio(normalize_text(e.clean_text), normalize_text(TextAt(k))),
          fuzzy_threshold)

\* the entry has matching fragments, and all of them lie outside its window
OnlyOutOfWindow(e) ==
    /\ e.is_section
    /\ \E k \in Keys : IsMatching(e, k)
    /\ \A k \in Keys : IsMatching(e, k) => ~InWindow(e, k[1])

WindowsOverlap(e, f) == \E p \in DOMAIN pages_data : InWindow(e, p) /\ InWindow(f, p)

-----------------------------------------------------------------------------
\* C1: after a call, every fragment key is claimed by at most one successful
\* MatchResult (a concatenation claims both of its fragments).
C1_FragmentClaimedOnce ==
    pc = "done" =>
        \A i, j \in 1..Len(results) :
            i # j => ClaimedBy(i) \cap ClaimedBy(j) = {}

\* C2 as stated: no two distinct matched results have the same
\* (page_num, matched_text).
C2_NoSharedPageAndText ==
    pc = "done" =>
        \A i, j \in 1..Len(results) :
            (i # j /\ results[i].matched /\ results[j].matched)
                => <<results[i].page_num, results[i].matched_text>>
                     # <<results[j].page_num, results[j].matched_text>>

\* C2 as amended: no two distinct matched results were matched at the same
\* starting fragment key (page_num, block index); two of them share
\* (page_num, matched_text) only when the text occurs at two places of the page.
C2_DistinctStartFragments ==
    pc = "done" =>
        \A i, j \in 1..Len(results) :
            (i # j /\ results[i].matched /\ results[j].matched)
                => /\ hits[i].page = results[i].page_num
                   /\ <<hits[i].page, hits[i].idx>> # <<hits[j].page, hits[j].idx>>

\* the same text occurs twice on a page and two results took one occurrence each
C2_Witness ==
    /\ pc = "done"
    /\ \E i, j \in 1..Len(results) :
          /\ i # j /\ results[i].matched /\ results[j].matched
          /\ results[i].page_num = results[j].page_num
          /\ results[i].matched_text = results[j].matched_text

\* C3: of two section entries with the same clean_text and overlapping
\* windows, the later one is never matched to a fragment key the earlier one
\* claimed: it is matched elsewhere or it is unmatched.
C3_DuplicateEntryTakesOtherFragment ==
    \A i, j \in 1..Len(results) :
        ( /\ i < j
          /\ results[i].toc_entry.is_section /\ results[j].toc_entry.is_section
          /\ results[i].toc_entry.clean_text = results[j].toc_entry.clean_text
          /\ WindowsOverlap(results[i].toc_entry, results[j].toc_entry)
          /\ results[j].matched )
            => ClaimedBy(j) \cap ClaimedBy(i) = {}

\* two entries of the same text were both matched, on the same page
C3_Witness ==
    \E i, j \in 1..Len(results) :
        /\ i < j
        /\ results[i].toc_entry.is_section /\ results[j].toc_entry.is_section
        /\ results[i].toc_entry.clean_text = results[j].toc_entry.clean_text
        /\ results[i].matched /\ results[j].matched
        /\ results[i].page_num = results[j].page_num

\* C4: a matched result lies on a body page inside the window of its entry,
\* and an entry whose matching fragments all lie outside the window is unmatched.
C4_MatchInsideWindow ==
    \A i \in 1..Len(results) :
        LET r == results[i]
        IN  /\ r.matched =>
                /\ InWindow(r.toc_entry, r.page_num)
                /\ r.page_num >= body_start
                /\ r.page_num \in DOMAIN pages_data
            /\ OnlyOutOfWindow(r.toc_entry) => ~r.matched

\* one entry was matched off its estimated page, another has its only
\* matching fragment outside the window
C4_Witness ==
    /\ \E i \in 1..Len(results) :
          results[i].matched /\ results[i].page_num # Target(results[i].toc_entry)
    /\ \E i \in 1..Len(results) : OnlyOutOfWindow(results[i].toc_entry)

\* C5: a later call on the inputs of the first call returns the MatchResult
\* list of the first call, also after another document was matched in between.
C5_RerunSameResults ==
    ( /\ pc = "done"
      /\ call_no > 1
      /\ <<toc_entries, pages_data>> = first_inputs )
        => results = first_results

\* the first document was matched again after another document, and its first
\* run had claimed a fragment
C5_Witness ==
    /\ pc = "done"
    /\ call_no = 3
    /\ <<toc_entries, pages_data>> = first_inputs
    /\ \E i \in 1..Len(first_results) : first_results[i].matched

\* C6: one MatchResult per entry, in TOC order, whatever happened to the
\* entries before: the results stored so far are those of the entries processed
\* so far, and the call returns one result for every entry.
C6_OneResultPerEntryInOrder ==
    /\ pc = "done" => Len(results) = Len(toc_entries)
    /\ pc \in {"for", "scan", "after"} =>
          Len(results) = entry_idx - 1 /\ Len(results) <= Len(toc_entries)
    /\ pc # "call" => \A i \in 1..Len(results) : results[i].toc_entry = toc_entries[i]


\* an unmatched section entry and a skipped entry are followed by a matched one
C6_Witness ==
    /\ pc = "done"
    /\ \E i \in 1..(Len(results) - 1) :
          ~results[i].matched /\ results[i + 1].matched

\* C7: when the window holds a fragment that was unclaimed as the entry's
\* scan began and that starts with the entry's normalized text, the scan ends
\* matched with similarity 1.0.
C7_PrefixFragmentGivesExactMatch ==
    pc = "after" =>
        ( (\E k \in Keys :
              /\ InWindow(entry, k[1])
              /\ k \notin claimed_at_start
              /\ IsPrefixHit(entry, k))
          => (mr.matched /\ EQ(mr.similarity, <<1, 1>>)) )

\* the prefix fragment was reached after a fuzzy candidate had been recorded
C7_Witness ==
    /\ pc = "after"
    /\ hit.kind = "exact"
    /\ GE(best_similarity, fuzzy_threshold)

\* C8 as stated: an entry whose only matching fragments lie outside the window
\* is unmatched, and every such fragment with a ratio at or above
\* suggestion_threshold is among its suggestions.
C8_OutOfWindowFragmentSuggested ==
    pc = "done" =>
        \A i \in 1..Len(results) :
            OnlyOutOfWindow(results[i].toc_entry) =>
                /\ ~results[i].matched
                /\ \A k \in Keys :
                      ( /\ IsMatching(results[i].toc_entry, k)
                        /\ GE(ratio(normalize_text(results[i].toc_entry.clean_text),
                                    normalize_text(TextAt(k))),
                              suggestion_threshold) )
                        => \E n \in 1..Len(results[i].suggestions) :
                              /\ results[i].suggestions[n].text = TextAt(k)
                              /\ results[i].suggestions[n].page = k[1]

\* C8 as amended: such an entry is unmatched and all its suggestions come
\* from pages inside the window, so the out-of-window fragment is not among them.
C8_SuggestionsOnlyFromWindow ==
    pc = "done" =>
        \A i \in 1..Len(results) :
            OnlyOutOfWindow(results[i].toc_entry) =>
                /\ ~results[i].matched
                /\ \A n \in 1..Len(results[i].suggestions) :
                      InWindow(results[i].toc_entry, results[i].suggestions[n].page)

\* the heading lies outside the window and the entry got suggestions from inside
C8_Witness ==
    /\ pc = "done"
    /\ \E i \in 1..Len(results) :
          /\ OnlyOutOfWindow(results[i].toc_entry)
          /\ results[i].suggestions # <<>>

-----------------------------------------------------------------------------
\* C9: _normalize_text is idempotent: normalizing an already normalized string
\* gives the same string back.
C9_Idempotent == npc = "twice" => n2 = n1

\* C10: _normalize_text does not depend on letter case nor on leading or
\* trailing whitespace: a variant of x in these respects normalizes like x.
C10_CaseAndTrimInsensitive == npc = "varied" => nv = n1

-----------------------------------------------------------------------------
(* Vocabulary of the parser claims *)

\* number of '.' in a text
DotCount(t) == Cardinality({k \in 1..Len(t) : t[k] = "."})

\* a text of decimal digits only
OnlyDigits(t) == \A k \in 1..Len(t) : t[k] \in {"0", "1", "2", "3", "4", "5", "6", "7", "8", "9"}

\* a line that ends in a run of digits
EndsInDigitRun(l) == l # <<>> /\ OnlyDigits(<<l[Len(l)]>>)

\* the lines of the TOC text the loop has passed, stripped
LinesDone == {str_strip(toc_text[i]) : i \in 1..(Min(line_idx, Len(toc_text) + 1) - 1)}

\* C11: an entry with a numbering has heading_level = min(dots + 1, 6), and
\* every entry has a heading_level in 1..6.
C11_HeadingLevelFromNumbering ==
    \A i \in 1..Len(entries) :
        LET e == entries[i]
        IN  /\ e.numbering # <<>> =>
                e.heading_level =
                    (IF DotCount(e.numbering) + 1 <= 6 THEN DotCount(e.numbering) + 1 ELSE 6)
            /\ e.heading_level \in 1..6

\* a numbering of more than six parts was parsed next to one of two parts
C11_Witness ==
    /\ ppc = "done"
    /\ \E i \in 1..Len(entries) : DotCount(entries[i].numbering) >= 6
    /\ \E i \in 1..Len(entries) : DotCount(entries[i].numbering) = 1

\* C12: the clean_text of an entry is never empty and never a number; a line
\* that does not end in a digit run, or whose cleaned text is empty or a
\* number, gives no entry.
C12_CleanTextNeverEmptyNorNumeric ==
    /\ \A i \in 1..Len(entries) :
          /\ entries[i].clean_text # <<>>
          /\ ~OnlyDigits(entries[i].clean_text)
    /\ \A l \in LinesDone :
          (~EndsInDigitRun(l) \/ clean_of(l) = <<>> \/ OnlyDigits(clean_of(l)))
              => \A i \in 1..Len(entries) : entries[i].raw_text # l

\* a line whose cleaned text is a number was dropped and another line kept
C12_Witness ==
    /\ ppc = "done"
    /\ entries # <<>>
    /\ \E l \in LinesDone : clean_of(l) # <<>> /\ OnlyDigits(clean_of(l))

\* C13 as stated: "3.2 System Overview ..... 14" gives one entry with
\* clean_text "System Overview", numbering "3.2", level 2, page 14, and a line
\* '<dotted-number> <title> <dot-leader> <page>' gives the title as clean_text.
C13_CleanTextIsTitle ==
    ppc = "done" =>
        \A n \in Numberings, t \in Titles, l \in DotLeaders, p \in PageNumbers :
            toc_text = <<FormLine(n, t, l, p)>> =>
                /\ Len(entries) = 1
                /\ entries[1].clean_text = t.text
                /\ entries[1].numbering = n.numbering
                /\ entries[1].heading_level = n.level
                /\ entries[1].page_number = p.value
                /\ entries[1].is_section

\* C13 as amended: the clean_text keeps the numbering prefix: it is the line
\* without the dot-leader and the page number, and without a number that ends
\* the title after whitespace.
C13_CleanTextKeepsNumbering ==
    ppc = "done" =>
        \A n \in Numberings, t \in Titles, l \in DotLeaders, p \in PageNumbers :
            toc_text = <<FormLine(n, t, l, p)>> =>
                /\ Len(entries) = 1
                /\ entries[1].clean_text = n.text \o <<" ">> \o t.kept
                /\ entries[1].numbering = n.numbering
                /\ entries[1].heading_level = n.level
                /\ entries[1].page_number = p.value
                /\ entries[1].is_section

\* the line of Scenario A was parsed
C13_Witness ==
    /\ ppc = "done"
    /\ toc_text = <<ScenarioA>>
    /\ Len(entries) = 1
    /\ entries[1].numbering = <<"3", ".", "2">>
    /\ entries[1].page_number = 14

-----------------------------------------------------------------------------
(* Tables, images and text blocks of a page: _generate_html, lines 663-721 *)

\* what a page shows from top to bottom: a text block, a table (with the
\* text block of its cell inside) or an image; item i lies in row i
ItemKinds == {"text", "table", "image"}
LayoutPages == SeqsUpTo(ItemKinds, MaxItems)
Layouts == SeqsUpTo(LayoutPages, MaxLayoutPages) \ {<<>>}

\* the vertical extent of row i, as (y0, y1)
bbox(i) == <<i - 1, i>>

\* fitz.Rect.intersects: the two extents have more than an edge in common
intersects(r, s) == Max(r[1], s[1]) < Min(r[2], s[2])

\* the rows from i on whose item is of one of the kinds, top to bottom
RECURSIVE RowsOf(_, _, _)
RowsOf(items, i, kinds) ==
    IF i > Len(items) THEN <<>>
    ELSE (IF items[i] \in kinds THEN <<i>> ELSE <<>>) \o RowsOf(items, i + 1, kinds)

\* table_rects of the page
table_rects(items) ==
    {bbox(RowsOf(items, 1, {"table"})[n]) :
        n \in 1..Len(RowsOf(items, 1, {"table"}))}

\* the text blocks of the page that no table rectangle intersects
free_blocks(items) ==
    SelectSeq(RowsOf(items, 1, {"text", "table"}),
              LAMBDA i : \A tr \in table_rects(items) : ~intersects(bbox(i), tr))

\* one part of html_parts for each of the rows
PartsFor(rows, p, kind) ==
    [n \in 1..Len(rows) |-> [page |-> p, row |-> rows[n], kind |-> kind]]

InitLayout ==
    /\ MatcherIdle
    /\ NormalizerIdle
    /\ ParserIdle
    /\ ConvertIdle
    /\ HeadingIdle
    /\ BatchIdle
    /\ l_doc \in Layouts
    /\ l_page = 1
    /\ l_parts = <<>>
    /\ lpc = "tables"

\* for table in tables.tables: html_parts.append(table_html)
EmitTables ==
    /\ lpc = "tables"
    /\ l_page <= Len(l_doc)
    /\ l_parts' = l_parts \o PartsFor(RowsOf(l_doc[l_page], 1, {"table"}), l_page, "table")
    /\ lpc' = "images"
    /\ UNCHANGED <<l_doc, l_page, other_than_layout>>

\* for img_key, img_path in page_images.items(): html_parts.append(<img>)
EmitImages ==
    /\ lpc = "images"
    /\ l_parts' = l_parts \o PartsFor(RowsOf(l_doc[l_page], 1, {"image"}), l_page, "image")
    /\ lpc' = "blocks"
    /\ UNCHANGED <<l_doc, l_page, other_than_layout>>

\* for block in blocks: a block inside a table is skipped, the others are appended
EmitBlocks ==
    /\ lpc = "blocks"
    /\ l_parts' = l_parts \o PartsFor(free_blocks(l_doc[l_page]), l_page, "text")
    /\ l_page' = l_page + 1
    /\ lpc' = "tables"
    /\ UNCHANGED <<l_doc, other_than_layout>>

\* the loop over the pages is used up
LayoutReturn ==
    /\ lpc = "tables"
    /\ l_page > Len(l_doc)
    /\ lpc' = "done"
    /\ UNCHANGED <<l_doc, l_page, l_parts, other_than_layout>>

NextLayout ==
    \/ EmitTables
    \/ EmitImages
    \/ EmitBlocks
    \/ LayoutReturn

SpecLayout == InitLayout /\ [][NextLayout]_vars

-----------------------------------------------------------------------------
(* The batch worker: gui.py _convert_batch, gui_pyqt.py ConvertWorker.run *)

\* BatchResult()
NewBatchResult ==
    [results |-> <<>>, total |-> 0, success_count |-> 0, fail_count |-> 0]

\* BatchResult.add(result)
add(br, success) ==
    [results |-> Append(br.results, success),
     total |-> br.total + 1,
     success_count |-> br.success_count + (IF success THEN 1 ELSE 0),
     fail_count |-> br.fail_count + (IF success THEN 0 ELSE 1)]

\* the documents of a batch, each with the success of its conversion
Batches == SeqsUpTo(BOOLEAN, MaxFiles) \ {<<>>}

InitBatch ==
    /\ MatcherIdle
    /\ NormalizerIdle
    /\ ParserIdle
    /\ ConvertIdle
    /\ HeadingIdle
    /\ LayoutIdle
    /\ files \in Batches
    /\ file_idx = 1
    /\ cancel_requested = FALSE
    /\ batch_result = NewBatchResult
    /\ done_events = <<>>
    /\ bpc = "check"
    /\ started_at_cancel = -1

StartDocumentUnchecked ==
    /\ bpc = "check"
    /\ file_idx <= Len(files)
    /\ bpc' = "convert"
    /\ UNCHANGED <<files, file_idx, cancel_requested, batch_result, done_events,
                   started_at_cancel, other_than_batch>>

\* the loop takes the next document: the flag is not set
StartDocument ==
    /\ bpc = "check"
    /\ file_idx <= Len(files)
    /\ ~cancel_requested
    /\ bpc' = "convert"
    /\ UNCHANGED <<files, file_idx, cancel_requested, batch_result, done_events,
                   started_at_cancel, other_than_batch>>

\* if self.cancel_requested: break
BreakOnCancel ==
    /\ bpc = "check"
    /\ file_idx <= Len(files)
    /\ cancel_requested
    /\ bpc' = "finish"
    /\ UNCHANGED <<files, file_idx, cancel_requested, batch_result, done_events,
                   started_at_cancel, other_than_batch>>

\* result = convert(...); batch_result.add(result)
ConvertDocument ==
    /\ bpc = "convert"
    /\ batch_result' = add(batch_result, files[file_idx])
    /\ file_idx' = file_idx + 1
    /\ bpc' = "check"
    /\ UNCHANGED <<files, cancel_requested, done_events, started_at_cancel,
                   other_than_batch>>

\* the loop over the files is used up
LoopEnd ==
    /\ bpc = "check"
    /\ file_idx > Len(files)
    /\ bpc' = "finish"
    /\ UNCHANGED <<files, file_idx, cancel_requested, batch_result, done_events,
                   started_at_cancel, other_than_batch>>

\* the 'done' message is put in the queue, finished_all is emitted
EmitDone ==
    /\ bpc = "finish"
    /\ done_events' = Append(done_events, batch_result)
    /\ bpc' = "finished"
    /\ UNCHANGED <<files, file_idx, cancel_requested, batch_result,
                   started_at_cancel, other_than_batch>>

\* the user interface thread sets the flag while the batch runs
Cancel ==
    /\ bpc \in {"check", "convert", "finish"}
    /\ ~cancel_requested
    /\ cancel_requested' = TRUE
    /\ started_at_cancel' = batch_result.total + (IF bpc = "convert" THEN 1 ELSE 0)
    /\ UNCHANGED <<files, file_idx, batch_result, done_events, bpc,
                   other_than_batch>>

NextBatch ==
    \/ StartDocument
    \/ BreakOnCancel
    \/ ConvertDocument
    \/ LoopEnd
    \/ EmitDone
    \/ Cancel

SpecBatch == InitBatch /\ [][NextBatch]_vars

-----------------------------------------------------------------------------
(* One matched fragment rendered as a heading: _generate_html, lines 708-713 *)

\* the pieces fragment texts are put together from
EscapeTokens ==
    {<<"&">>, <<"<">>, <<">">>, <<"\"">>, <<"'">>, <<"a">>,
     <<"&", "a", "m", "p", ";">>, <<"&", "l", "t", ";">>}

RECURSIVE TokenTexts(_)
TokenTexts(n) ==
    IF n = 0 THEN {<<>>}
    ELSE LET shorter == TokenTexts(n - 1)
         IN  shorter \cup {t \o k : t \in shorter, k \in EscapeTokens}

\* the block texts that reach the heading branch: stripped, not blank
HeadingTexts == {t \in TokenTexts(MaxTokens) : t # <<>>}

\* the heading levels a TocEntry can carry
HeadingLevels == {level_capped(n) : n \in 1..7}

InitHeading ==
    /\ MatcherIdle
    /\ NormalizerIdle
    /\ ParserIdle
    /\ ConvertIdle
    /\ LayoutIdle
    /\ BatchIdle
    /\ h_text \in HeadingTexts
    /\ h_level \in HeadingLevels
    /\ h_html = <<>>
    /\ hpc = "block"

\* html_parts.append(f'<h{level}>{escape_html(block_text)}</h{level}>')
AppendHeading ==
    /\ hpc = "block"
    /\ h_html' = heading_html(h_level, h_text)
    /\ hpc' = "appended"
    /\ UNCHANGED <<h_text, h_level, other_than_heading>>

NextHeading == AppendHeading

SpecHeading == InitHeading /\ [][NextHeading]_vars

-----------------------------------------------------------------------------
(* Vocabulary of the conversion claims *)

\* the clean_text starts with a configured non-heading prefix, case ignored
HasNonHeadingPrefix(e) ==
    \E prefix \in non_heading_prefixes :
        StartsWith(str_lower(e.clean_text), str_lower(prefix))

\* a part of the HTML output is a heading, a paragraph
IsHeading(part) == StartsWith(part.html, <<"<", "h">>)
IsParagraph(part) == StartsWith(part.html, <<"<", "p", ">">>)

\* the fragment keys claimed by the successful MatchResults
ClaimedByMatches ==
    UNION {ClaimedBy(i) : i \in {j \in 1..Len(results) : results[j].matched}}

\* no page among the first toc_max_search_pages holds a marker keyword
NoMarkerInSearchedPages ==
    \A p \in DOMAIN input_file.pages :
        p < toc_max_search_pages =>
            \A i \in 1..Len(input_file.pages[p]) :
                ~Contains(str_lower(input_file.pages[p][i].text),
                          <<"c", "o", "n", "t", "e", "n", "t", "s">>)

Readable == input_file.exists /\ input_file.is_pdf /\ input_file.opens

\* C14, the state part: an entry with a non-heading prefix is no section; its
\* result is unmatched without suggestions and was never scanned for; it is
\* no source of the heading lookup; the report has its skipped line and does
\* not count it.
C14_SkippedEntryState ==
    /\ \A i \in 1..Len(entries) :
          HasNonHeadingPrefix(entries[i]) => ~entries[i].is_section
    /\ \A i \in 1..Len(results) :
          HasNonHeadingPrefix(results[i].toc_entry) =>
              /\ ~results[i].matched
              /\ results[i].suggestions = <<>>
              /\ hits[i] = NoHit
              /\ i \notin HeadingSources(results)
    /\ pc \in {"scan", "after"} => ~HasNonHeadingPrefix(entry)
    /\ report_file.state = "complete" =>
          LET rep == report_file.report
              skipped == {n \in 1..Len(rep.lines) : rep.lines[n].kind = "skipped"}
              prefixed == {i \in 1..Len(results) : HasNonHeadingPrefix(results[i].toc_entry)}
          IN  /\ \A i \in prefixed :
                    \E n \in skipped : rep.lines[n].text = results[i].toc_entry.clean_text
              /\ Cardinality(skipped) >= Cardinality(prefixed)
              /\ rep.section_total = Len(results) - Cardinality(skipped)
              /\ rep.section_total = rep.section_matched + rep.section_failed

\* C14, the step part: the step that handles such an entry goes on to the
\* next entry and leaves the claimed-fragment set as it is.
C14_SkippedEntryStep ==
    ( /\ pc = "for"
      /\ entry_idx <= Len(toc_entries)
      /\ HasNonHeadingPrefix(toc_entries[entry_idx]) )
        => /\ pc' = "for"
           /\ entry_idx' = entry_idx + 1
           /\ matched_blocks' = matched_blocks

\* C14: a TOC entry with a non-heading prefix is skipped by the Matcher
\* without a scan or a claim, is no heading, and is a skipped line of the report.
C14_NonHeadingEntrySkipped == []C14_SkippedEntryState /\ [][C14_SkippedEntryStep]_vars

\* a figure reference stands behind a matched entry whose fragment was claimed
C14_Witness ==
    /\ cpc = "returned"
    /\ report_file.state = "complete"
    /\ matched_blocks # {}
    /\ \E i \in 2..Len(results) : HasNonHeadingPrefix(results[i].toc_entry)
    /\ \E n \in 1..Len(html_parts) : IsHeading(html_parts[n])

\* C16: without a marker keyword on the searched pages the conversion goes
\* on: no TOC range, a warning, no matching and no report, body start 0, only
\* paragraphs in the HTML, and success when nothing else fails.
C16_NoTocFallsBackToParagraphs ==
    (cpc = "returned" /\ Readable /\ NoMarkerInSearchedPages) =>
        /\ toc_range = <<>>
        /\ result.warnings # <<>>
        /\ results = <<>>
        /\ pc = "idle"
        /\ report_file.state = "absent"
        /\ body_start_page = 0
        /\ DOMAIN pages_data = DOMAIN input_file.pages
        /\ \A n \in 1..Len(html_parts) : IsParagraph(html_parts[n])
        /\ input_file.disk_ok =>
              /\ result.success
              /\ result.error_message = "None"
              /\ output_file = [state |-> "complete", content |-> html_parts]

\* a document whose only marker keyword stands behind the searched pages
C16_Witness ==
    /\ cpc = "returned"
    /\ result.success
    /\ toc_range = <<>>
    /\ NoMarkerInSearchedPages
    /\ \E p \in DOMAIN input_file.pages : p >= 10
    /\ Len(html_parts) > 10

\* C17: after convert the output file is complete or as it was before the
\* call; a failed conversion leaves no empty or partial file.
C17_OutputCompleteOrUntouched ==
    cpc = "returned" =>
        /\ output_file.state # "truncated"
        /\ ~result.success => output_file = input_file.output_before

\* C18: an input that is missing, not a .pdf or not openable gives
\* success = False with an error message and no HTML file nor report; an
\* exception during the conversion gives success = False with error_message set.
C18_UnreadableInputIsAResult ==
    cpc = "returned" =>
        /\ ~Readable =>
              /\ ~result.success
              /\ result.error_message \notin {"None", ""}
              /\ output_file = input_file.output_before
              /\ report_file.state = "absent"
        /\ (Readable /\ ~input_file.disk_ok) =>
              /\ ~result.success
              /\ result.error_message # "None"
        /\ result.success => Readable /\ input_file.disk_ok

\* a .pdf that exists and cannot be opened was given
C18_Witness ==
    /\ cpc = "returned"
    /\ input_file.exists /\ input_file.is_pdf /\ ~input_file.opens
    /\ input_file.output_before.state = "complete"

\* C19: a heading is emitted only for a fragment whose key a successful
\* MatchResult claimed, and a matched entry gives at most one heading.
C19_HeadingsOnlyForMatchedFragments ==
    (cpc = "returned" /\ result.success) =>
        /\ \A n \in 1..Len(html_parts) :
              IsHeading(html_parts[n]) =>
                  <<html_parts[n].page, html_parts[n].idx>> \in ClaimedByMatches
        /\ Cardinality({n \in 1..Len(html_parts) : IsHeading(html_parts[n])})
              <= Cardinality({i \in 1..Len(results) : results[i].matched})

\* the heading part without the enclosing <hN> and </hN>
strip_heading_tags(html) ==
    IF /\ Len(html) >= 9
       /\ SubSeq(html, 1, 2) = <<"<", "h">> /\ html[4] = ">"
       /\ SubSeq(html, Len(html) - 4, Len(html) - 2) = <<"<", "/", "h">>
       /\ html[Len(html)] = ">"
    THEN SubSeq(html, 5, Len(html) - 5)
    ELSE html

\* the five entities and the character each stands for
EntityChars ==
    {<<Entity.amp, "&">>, <<Entity.lt, "<">>, <<Entity.gt, ">">>,
     <<Entity.quot, "\"">>, <<Entity.apos, "'">>}

\* one pass from the left that turns each entity into its character
RECURSIVE unescape_entities(_)
unescape_entities(s) ==
    IF s = <<>> THEN <<>>
    ELSE LET found == {e \in EntityChars : StartsWith(s, e[1])}
         IN  IF found = {} THEN <<Head(s)>> \o unescape_entities(Tail(s))
             ELSE LET e == CHOOSE x \in found : TRUE
                  IN  <<e[2]>> \o unescape_entities(SubSeq(s, Len(e[1]) + 1, Len(s)))

\* C15: the heading emitted for a fragment text, without its <hN> tags and
\* with the entities unescaped, is the fragment text again.
C15_HeadingRoundTrip ==
    hpc = "appended" =>
        /\ SubSeq(h_html, 1, 4) = <<"<", "h", LevelChar(h_level), ">">>
        /\ unescape_entities(strip_heading_tags(h_html)) = h_text

\* a text with an ampersand, a tag bracket and the substring "&lt;" was emitted
C15_Witness ==
    /\ hpc = "appended"
    /\ Contains(h_text, <<"&", "l", "t", ";">>)
    /\ Contains(h_text, <<"<">>)
    /\ Contains(h_text, <<"'">>)
    /\ Len(h_html) > Len(h_text) + 9

\* the three shapes of a stored MatchResult; h is how its match was set
IsSkippedShape(r) ==
    /\ ~r.toc_entry.is_section
    /\ ~r.matched
    /\ r.suggestions = <<>>

IsMatchedShape(r, h) ==
    /\ r.toc_entry.is_section
    /\ r.matched
    /\ r.matched_text # <<>>
    /\ r.similarity[1] * 100 >= 80 * r.similarity[2]
    /\ r.similarity[1] <= r.similarity[2]
    /\ (r.similarity[1] = r.similarity[2]) <=> (h.kind \in {"exact", "concat"})
    /\ h.kind \in {"exact", "concat", "fuzzy"}
    /\ r.suggestions = <<>>

IsUnmatchedShape(r) ==
    /\ r.toc_entry.is_section
    /\ ~r.matched
    /\ r.matched_text = <<>>
    /\ r.similarity[1] = 0
    /\ Len(r.suggestions) <= 3

\* C20: every stored MatchResult is skipped, matched or unmatched, with the
\* fields each shape requires.
C20_ResultShapes ==
    \A i \in 1..Len(results) :
        \/ IsSkippedShape(results[i])
        \/ IsMatchedShape(results[i], hits[i])
        \/ IsUnmatchedShape(results[i])

\* more than max_suggestions candidates were collected for an unmatched entry
\* that stands behind a skipped one
C20_Witness ==
    /\ pc = "done"
    /\ Len(results) = 2
    /\ IsSkippedShape(results[1])
    /\ IsUnmatchedShape(results[2])
    /\ Len(results[2].suggestions) = 3
    /\ Len(suggestions) > 3

-----------------------------------------------------------------------------
(* Vocabulary of the matcher claims on selection, suggestions and claims *)

\* the entry whose result was stored last, and what its match was
LastIdx == Len(results)
LastEntry == results[LastIdx].toc_entry
LastHit == hits[LastIdx]
LastKey == <<LastHit.page, LastHit.idx>>

\* the keys the entry stored last has added to the claimed set
AddedByLast == matched_blocks \ claimed_at_start

\* similarity ratio of the fragment at key k to the entry
RatioOf(e, k) == ratio(normalize_text(e.clean_text), normalize_text(TextAt(k)))

\* the window fragments that were unclaimed when the entry's scan began
OpenInWindow(e) == {k \in Keys : InWindow(e, k[1]) /\ k \notin claimed_at_start}

\* page-then-index order of two keys
KeyBefore(k, l) == k[1] < l[1] \/ (k[1] = l[1] /\ k[2] <= l[2])

\* the fuzzy candidates of the entry
FuzzyCandidates(e) ==
    {k \in OpenInWindow(e) : GE(RatioOf(e, k), fuzzy_threshold)}

\* the selected fragment of a fuzzy match is the first of the best candidates
C21_SelectedIsFirstBest ==
    (pc \in {"for", "done"} /\ LastIdx >= 1 /\ LastHit.kind = "fuzzy") =>
        /\ LastKey \in FuzzyCandidates(LastEntry)
        /\ results[LastIdx].matched_text = TextAt(LastKey)
        /\ \A k \in FuzzyCandidates(LastEntry) :
              /\ GE(RatioOf(LastEntry, LastKey), RatioOf(LastEntry, k))
              /\ GE(RatioOf(LastEntry, k), RatioOf(LastEntry, LastKey))
                    => KeyBefore(LastKey, k)

\* C21: a fuzzy match selects the first of the best unclaimed window
\* fragments at or above fuzzy_threshold; no key is claimed during the scan,
\* and after it exactly the key of the selected fragment is added.
C21_FuzzyClaimsExactlySelected ==
    /\ C21_SelectedIsFirstBest
    /\ (pc = "scan" /\ hit.kind \in {"none", "fuzzy"}) =>
          matched_blocks = claimed_at_start
    /\ (pc \in {"for", "done"} /\ LastIdx >= 1 /\ LastHit.kind = "fuzzy") =>
          AddedByLast = {LastKey}

\* the suggestion candidates of the entry: open window fragments with a
\* ratio in [suggestion_threshold, fuzzy_threshold)
SuggestionCandidates(e) ==
    {k \in OpenInWindow(e) :
        /\ GE(RatioOf(e, k), suggestion_threshold)
        /\ ~GE(RatioOf(e, k), fuzzy_threshold)}

\* the stored list s shows the keys of S, each once
Shows(s, S) ==
    \E f \in [1..Len(s) -> S] :
        /\ \A i, j \in 1..Len(s) : f[i] = f[j] => i = j
        /\ \A i \in 1..Len(s) :
              /\ s[i].text = TextAt(f[i])
              /\ s[i].page = f[i][1]
              /\ s[i].similarity = round2(RatioOf(LastEntry, f[i]))

\* the stored suggestions of the last entry are the best of its candidates
C22_StoredAreTopCandidates ==
    (pc \in {"for", "done"} /\ LastIdx >= 1 /\ LastEntry.is_section
        /\ ~results[LastIdx].matched) =>
        LET s == results[LastIdx].suggestions
            cands == SuggestionCandidates(LastEntry)
        IN  /\ Len(s) = Min(3, Cardinality(cands))
            /\ \A i \in 1..(Len(s) - 1) : s[i].similarity >= s[i + 1].similarity
            /\ \E S \in SUBSET cands :
                  /\ Cardinality(S) = Len(s)
                  /\ Shows(s, S)
                  /\ \A k \in S, l \in cands \ S :
                        GE(RatioOf(LastEntry, k), RatioOf(LastEntry, l))

\* C22: the stored suggestions of an unmatched section entry are sorted by
\* non-increasing similarity, at most max_suggestions, the top candidates of
\* the open window fragments with a ratio in [suggestion_threshold,
\* fuzzy_threshold), each with a similarity in that range.
C22_SuggestionsSortedTopInRange ==
    /\ C22_StoredAreTopCandidates
    /\ \A i \in 1..Len(results) :
          (results[i].toc_entry.is_section /\ ~results[i].matched) =>
              \A n \in 1..Len(results[i].suggestions) :
                  /\ results[i].suggestions[n].similarity >= 50
                  /\ results[i].suggestions[n].similarity < 80

\* a text as the claim compares it: case ignored, whitespace runs collapsed
Folded(t) == str_strip(collapse_whitespace(str_lower(t)))

\* C23: a match through the exact-prefix path is textual containment: the
\* matched fragment's text, case ignored and whitespace collapsed, begins
\* with the whole clean_text of the entry, a trailing number included.
C23_ExactMatchIsContainment ==
    \A i \in 1..Len(results) :
        hits[i].kind = "exact" =>
            /\ GE(results[i].similarity, <<1, 1>>)
            /\ StartsWith(Folded(results[i].matched_text),
                          Folded(results[i].toc_entry.clean_text))

\* the block of the extracted body at key k
BodyBlock(k) == pages_data[k[1]][k[2] + 1]

\* the part of the HTML that comes from the fragment at key k, if any
PartsOf(k) ==
    {n \in 1..Len(html_parts) :
        html_parts[n].page = k[1] /\ html_parts[n].idx = k[2]}

\* C24: every fragment claimed by a successful section result whose
\* normalized matched_text has two characters or more is a heading of the
\* level of that result's own entry, for exact-prefix, fuzzy and
\* concatenation matches alike (digits-only fragments are exempt).
C24_ClaimedFragmentsAreHeadings ==
    (cpc = "returned" /\ result.success) =>
        \A i \in 1..Len(results) :
            ( /\ results[i].matched
              /\ results[i].toc_entry.is_section
              /\ Len(normalize_text(results[i].matched_text)) >= 2 ) =>
                \A k \in ClaimedBy(i) :
                    ~OnlyDigits(str_strip(BodyBlock(k).text)) =>
                        \E n \in PartsOf(k) :
                            StartsWith(html_parts[n].html,
                                       <<"<", "h",
                                         LevelChar(results[i].toc_entry.heading_level),
                                         ">">>)

\* the parts of a layout run come page by page, and no part is the text of
\* a table cell
C25_PagesInOrderCellsExcluded ==
    lpc = "done" =>
        /\ \A n, k \in 1..Len(l_parts) : n < k => l_parts[n].page <= l_parts[k].page
        /\ \A n \in 1..Len(l_parts) :
              l_parts[n].kind = "text" => l_doc[l_parts[n].page][l_parts[n].row] = "text"

\* C25: the output is in document order: pages in increasing order, within a
\* page every table, image and text fragment at the place of its geometry,
\* and no text fragment that intersects a table is emitted.
C25_OutputInDocumentOrder ==
    /\ C25_PagesInOrderCellsExcluded
    /\ lpc = "done" =>
          \A n, k \in 1..Len(l_parts) :
              (n < k /\ l_parts[n].page = l_parts[k].page) =>
                  l_parts[n].row < l_parts[k].row

\* the scan limit, and what the pages of the input show
ScanLimit == Min(toc_max_search_pages, Cardinality(DOMAIN input_file.pages))

PageShows(p, needle) ==
    \E i \in 1..Len(input_file.pages[p]) :
        Contains(str_lower(input_file.pages[p][i].text), needle)

PageHasMarker(p) == PageShows(p, <<"c", "o", "n", "t", "e", "n", "t", "s">>)
PageHasDots(p) == PageShows(p, <<".", ".", ".", ".">>)

TocLocated == cpc \in {"parse", "extract"}

\* C26: with a marker on a searched page _find_toc_pages returns (s, e): s
\* the first searched page with a marker, s <= e < L, a dot-leader on every
\* page after s up to e, and e the page before the first page after s
\* without one, or L - 1.
C26_TocRangeIsMarkerThenDottedPages ==
    (TocLocated /\ \E p \in 0..(ScanLimit - 1) : PageHasMarker(p)) =>
        /\ toc_range # <<>>
        /\ toc_range[1] \in 0..(ScanLimit - 1)
        /\ PageHasMarker(toc_range[1])
        /\ \A p \in 0..(toc_range[1] - 1) : ~PageHasMarker(p)
        /\ toc_range[1] <= toc_range[2]
        /\ toc_range[2] < ScanLimit
        /\ \A p \in (toc_range[1] + 1)..toc_range[2] : PageHasDots(p)
        /\ \/ toc_range[2] + 1 < ScanLimit /\ ~PageHasDots(toc_range[2] + 1)
           \/ toc_range[2] = ScanLimit - 1

\* a start page without a dot-leader, a dotted page behind it, and the
\* region ended by a page with three periods only
C26_Witness ==
    /\ TocLocated
    /\ toc_range # <<>>
    /\ toc_range[2] > toc_range[1]
    /\ ~PageHasDots(toc_range[1])
    /\ toc_range[2] + 1 < ScanLimit
    /\ PageShows(toc_range[2] + 1, <<".", ".", ".">>)

\* the status lines of the report, without the suggestion lines
StatusLines ==
    SelectSeq(report_file.report.lines, LAMBDA l : l.kind # "suggestion")

\* the group a MatchResult belongs to
GroupOf(r) ==
    IF ~r.toc_entry.is_section THEN "skipped"
    ELSE IF r.matched THEN "matched" ELSE "failed"

CountOf(group) == Cardinality({i \in 1..Len(results) : GroupOf(results[i]) = group})

\* C27: the report has one status line per MatchResult, in its group;
\* section_total is matched plus failed without the skipped entries; the
\* match rate is matched / section_total * 100, and 0 without sections; a
\* matched line shows page_num + 1; at most max_suggestions suggestion lines
\* follow an unmatched line.
C27_ReportPartitionsResults ==
    report_file.state = "complete" =>
        LET rep == report_file.report
            rate == report_file.match_rate
        IN  /\ Len(StatusLines) = Len(results)
            /\ \A i \in 1..Len(results) :
                  /\ StatusLines[i].kind = GroupOf(results[i])
                  /\ StatusLines[i].text = results[i].toc_entry.clean_text
                  /\ results[i].matched => StatusLines[i].page = results[i].page_num + 1
            /\ rep.section_matched = CountOf("matched")
            /\ rep.section_failed = CountOf("failed")
            /\ rep.section_total = CountOf("matched") + CountOf("failed")
            /\ rep.section_total = Len(results) - CountOf("skipped")
            /\ IF CountOf("matched") + CountOf("failed") = 0
               THEN rate[1] = 0 /\ rate[2] > 0
               ELSE /\ rate[2] > 0
                    /\ rate[1] * (CountOf("matched") + CountOf("failed"))
                          = CountOf("matched") * 100 * rate[2]
            /\ \A n \in 1..Len(rep.lines) :
                  rep.lines[n].kind = "suggestion" =>
                      \E k \in 1..3 :
                          /\ n - k >= 1
                          /\ rep.lines[n - k].kind = "failed"
                          /\ \A j \in (n - k + 1)..n : rep.lines[j].kind = "suggestion"

\* a report with a skipped and a matched line: one section, rate 100
C27_Witness ==
    /\ cpc = "returned"
    /\ report_file.state = "complete"
    /\ Len(results) = 2
    /\ CountOf("skipped") = 1
    /\ CountOf("matched") = 1
    /\ report_file.match_rate = <<100, 1>>

\* the conversions of the first n documents that succeeded
Succeeded(n) == Cardinality({i \in 1..n : files[i]})

\* C28: once the flag is set, the document whose conversion has started runs
\* to its end and is recorded, no further document is converted, and the
\* worker delivers the final event exactly once, with a BatchResult whose
\* total is success_count + fail_count and the number of converted documents.
C28_CancelBetweenDocuments ==
    /\ Len(done_events) <= 1
    /\ batch_result.total = Len(batch_result.results)
    /\ batch_result.total = batch_result.success_count + batch_result.fail_count
    /\ batch_result.success_count = Succeeded(batch_result.total)
    /\ batch_result.results = SubSeq(files, 1, batch_result.total)
    /\ started_at_cancel # -1 => batch_result.total <= started_at_cancel
    /\ bpc = "finished" =>
          /\ Len(done_events) = 1
          /\ done_events[1] = batch_result
          /\ IF started_at_cancel # -1
             THEN batch_result.total = started_at_cancel
             ELSE batch_result.total = Len(files)

\* the flag was set during the second of three documents
C28_Witness ==
    /\ bpc = "finished"
    /\ Len(files) = 3
    /\ started_at_cancel = 2
    /\ batch_result.total = 2
    /\ batch_result.fail_count = 1
    /\ Len(done_events) = 1

\* the second key of a concatenation match
LastNextKey == <<LastHit.page, LastHit.idx + 1>>

\* C29: within one run the claimed set only grows; an entry that ends
\* unmatched or is skipped leaves it unchanged; a matched entry adds exactly
\* one key (exact-prefix, fuzzy) or the two adjacent keys (concatenation),
\* all on the match's page_num; a key claimed when the entry starts is never
\* the fragment the entry takes.
C29_ClaimedSetGrowsByTheMatch ==
    /\ pc # "call" => claimed_at_start \subseteq matched_blocks
    /\ (pc \in {"for", "done"} /\ LastIdx >= 1 /\ LastEntry.is_section) =>
          /\ ~results[LastIdx].matched => AddedByLast = {}
          /\ LastHit.kind \in {"exact", "fuzzy"} => AddedByLast = {LastKey}
          /\ LastHit.kind = "concat" => AddedByLast = {LastKey, LastNextKey}
          /\ \A k \in AddedByLast : k[1] = results[LastIdx].page_num
          /\ results[LastIdx].matched => LastKey \notin claimed_at_start

\* the trailing-number stripping has removed a part of the text
NumberStripped(t) ==
    strip_trailing_number(collapse_whitespace(str_lower(t)))
        # collapse_whitespace(str_lower(t))

\* C30: for every TocEntry the parser produces, normalize_text(clean_text)
\* is a non-empty string that begins with the first character of the
\* lower-cased clean_text, so the prefix tests are never passed by an empty
\* prefix.
C30_NormalizedCleanTextNonEmpty ==
    \A i \in 1..Len(entries) :
        LET key == normalize_text(entries[i].clean_text)
        IN  /\ key # <<>>
            /\ key[1] = str_lower(entries[i].clean_text)[1]
            /\ ~StartsWith(<<>>, key)

\* an entry whose clean_text begins with a digit and loses a trailing number
C30_Witness ==
    /\ ppc = "done"
    /\ \E i \in 1..Len(entries) :
          /\ IsDigit(entries[i].clean_text[1])
          /\ NumberStripped(entries[i].clean_text)
          /\ Len(normalize_text(entries[i].clean_text)) = 1

====
